---- MODULE Spec2Model ----
(***************************************************************************)
(* Model of the credential pool manager of datadog-mcp                     *)
(* (src/src/key_rotation.py): KeyPair, KeyPoolManager, the rate-limit      *)
(* detector and the retry wrapper built by create_retry_decorator.         *)
(*                                                                         *)
(* Time.  datetime.now() is the variable `now`, an integer number of       *)
(* ticks; one tick is five minutes, so timedelta(hours=1) is 12 ticks,     *)
(* timedelta(minutes=30) is 6 and timedelta(minutes=5) is 1.  The clock    *)
(* moves only by the action Tick; every other step is instantaneous.       *)
(* circuit_breaker_timeout, a number of minutes in the source, is a        *)
(* number of ticks here.                                                   *)
(*                                                                         *)
(* Not modelled: the secret material of a key (api_key, app_key, site),    *)
(* logging, and the smoothed average_response_time, which no control flow  *)
(* reads.                                                                  *)
(***************************************************************************)
EXTENDS Integers, Sequences, FiniteSets, TLC

(* ------------------------------ bounds -------------------------------- *)

\* number of key pair ids, and the largest pool the round-robin runs are built with
MaxKeys == 3
\* number of key pairs the pool of Spec is built with
PoolKeys == 2
\* last clock value
MaxTime == 3
\* record_key_event calls made directly on the pool
MaxEvents == 3
\* get_key_by_strategy calls made directly on the pool
MaxSelects == 4
\* largest circuit_breaker_threshold
MaxThreshold == 2
\* largest max_retries handed to create_retry_decorator
MaxRetries == 3
\* calls of the wrapped operation started by one thread
MaxCalls == 1
\* latest reset_time a direct record_key_event supplies, in ticks after now
MaxResetDelay == 1
\* last clock value of the runs that watch the 30-minute window of
\* _select_adaptive: one tick past the window of a rate limit at tick 1
LateTime == 7
\* record_key_event calls made on one key pair that was added to the pool
MaxUses == 1
\* calls of start_health_monitoring, stop_health_monitoring or get_pool_status
\* made by one thread
MaxMonitorCalls == 2

(* -------------------------- program constants ------------------------- *)

\* timedelta(hours=1): the default rate-limit reset delay
RATE_LIMIT_DEFAULT == 12
\* timedelta(minutes=30): the window of _select_adaptive
ADAPTIVE_WINDOW == 6
\* timedelta(minutes=5): the grace period of _perform_health_checks
HEALTH_GRACE == 1
\* circuit_breaker_timeout: int = 10, minutes
CIRCUIT_BREAKER_TIMEOUT == 2

\* Python's None where a datetime is expected; as datetime.min it sorts first
NoTime == 0 - 1
\* Python's None where a key pair is expected: no id of KeyIds
None == 0
\* Python's None where an exception is expected: no error text
NoException == <<>>

KeyIds == 1..MaxKeys

\* class KeyHealth
HEALTHY == "healthy"
RATE_LIMITED == "rate_limited"
ERROR == "error"
DISABLED == "disabled"
TESTING == "testing"
KeyHealth == {HEALTHY, RATE_LIMITED, ERROR, DISABLED, TESTING}

\* class RotationStrategy
ROUND_ROBIN == "round_robin"
LEAST_RECENTLY_USED == "lru"
WEIGHTED == "weighted"
ADAPTIVE == "adaptive"
RANDOM == "random"
RotationStrategy == {ROUND_ROBIN, LEAST_RECENTLY_USED, WEIGHTED, ADAPTIVE, RANDOM}

(* ------------------------------ KeyPair ------------------------------- *)

\* KeyPair(id, api_key, app_key): the dataclass defaults, with a fresh
\* KeyUsageMetrics.  Weights are in hundredths (1.0 is 100).
KeyPair == [health |-> TESTING,
            total_requests |-> 0,
            successful_requests |-> 0,
            rate_limited_requests |-> 0,
            error_requests |-> 0,
            last_used |-> NoTime,
            last_rate_limit |-> NoTime,
            last_error |-> NoTime,
            consecutive_failures |-> 0,
            rate_limit_reset_time |-> NoTime,
            circuit_breaker_reset_time |-> NoTime,
            weight |-> 100]

\* mutant of Heal: a key in TESTING is promoted by the availability check
Heal_promoting(k, t) ==
    IF k.health = DISABLED THEN k
    ELSE IF k.health = TESTING THEN [k EXCEPT !.health = HEALTHY]
    ELSE
    LET a == IF k.health = RATE_LIMITED /\ k.rate_limit_reset_time # NoTime
                  /\ t > k.rate_limit_reset_time
             THEN [k EXCEPT !.health = HEALTHY, !.rate_limit_reset_time = NoTime]
             ELSE k
    IN  IF a.health = ERROR /\ a.circuit_breaker_reset_time # NoTime
            /\ t > a.circuit_breaker_reset_time
        THEN [a EXCEPT !.health = TESTING, !.circuit_breaker_reset_time = NoTime]
        ELSE a

\* mutant of Heal: the reset times are compared with >= in place of >
Heal_at_reset(k, t) ==
    IF k.health = DISABLED THEN k
    ELSE
    LET a == IF k.health = RATE_LIMITED /\ k.rate_limit_reset_time # NoTime
                  /\ t >= k.rate_limit_reset_time
             THEN [k EXCEPT !.health = HEALTHY, !.rate_limit_reset_time = NoTime]
             ELSE k
    IN  IF a.health = ERROR /\ a.circuit_breaker_reset_time # NoTime
            /\ t >= a.circuit_breaker_reset_time
        THEN [a EXCEPT !.health = TESTING, !.circuit_breaker_reset_time = NoTime]
        ELSE a

\* mutant of Heal: the circuit is tested first, and an expired rate limit
\* leaves the key in ERROR for the next evaluation to reset
Heal_stepwise(k, t) ==
    IF k.health = DISABLED THEN k
    ELSE
    LET a == IF k.health = ERROR /\ k.circuit_breaker_reset_time # NoTime
                  /\ t > k.circuit_breaker_reset_time
             THEN [k EXCEPT !.health = TESTING, !.circuit_breaker_reset_time = NoTime]
             ELSE k
    IN  IF a.health = RATE_LIMITED /\ a.rate_limit_reset_time # NoTime
            /\ t > a.rate_limit_reset_time
        THEN [a EXCEPT !.health = ERROR, !.rate_limit_reset_time = NoTime]
        ELSE a

\* mutant of Heal: a circuit that closes forgets the failures that opened it
Heal_forgiving(k, t) ==
    IF k.health = DISABLED THEN k
    ELSE
    LET a == IF k.health = RATE_LIMITED /\ k.rate_limit_reset_time # NoTime
                  /\ t > k.rate_limit_reset_time
             THEN [k EXCEPT !.health = HEALTHY, !.rate_limit_reset_time = NoTime]
             ELSE k
    IN  IF a.health = ERROR /\ a.circuit_breaker_reset_time # NoTime
            /\ t > a.circuit_breaker_reset_time
        THEN [a EXCEPT !.health = TESTING, !.circuit_breaker_reset_time = NoTime,
                       !.consecutive_failures = 0]
        ELSE a

\* KeyPair.is_available, its side effect: the key after the auto-heal at time t
Heal(k, t) ==
    IF k.health = DISABLED THEN k
    ELSE
    LET a == IF k.health = RATE_LIMITED /\ k.rate_limit_reset_time # NoTime
                  /\ t > k.rate_limit_reset_time
             THEN [k EXCEPT !.health = HEALTHY, !.rate_limit_reset_time = NoTime]
             ELSE k
    IN  IF a.health = ERROR /\ a.circuit_breaker_reset_time # NoTime
            /\ t > a.circuit_breaker_reset_time
        THEN [a EXCEPT !.health = TESTING, !.circuit_breaker_reset_time = NoTime]
        ELSE a

\* mutant of is_available: a key pair on probation is not available
is_available_healthy_only(k, t) == Heal(k, t).health = HEALTHY

\* KeyPair.is_available, its result at time t
is_available(k, t) == Heal(k, t).health \in {HEALTHY, TESTING}

\* KeyPair.record_success at time t
record_success(k, t) ==
    [k EXCEPT !.total_requests = @ + 1,
              !.successful_requests = @ + 1,
              !.last_used = t,
              !.consecutive_failures = 0,
              !.health = IF @ = TESTING THEN HEALTHY ELSE @]

\* mutant of record_rate_limit: the health is left as it was
record_rate_limit_unmarked(k, t, reset_time) ==
    [k EXCEPT !.total_requests = @ + 1,
              !.rate_limited_requests = @ + 1,
              !.last_rate_limit = t,
              !.rate_limit_reset_time =
                  IF reset_time # NoTime THEN reset_time ELSE t + RATE_LIMIT_DEFAULT]

\* mutant of record_rate_limit: the event is not counted in total_requests
record_rate_limit_uncounted(k, t, reset_time) ==
    [k EXCEPT !.rate_limited_requests = @ + 1,
              !.last_rate_limit = t,
              !.health = RATE_LIMITED,
              !.rate_limit_reset_time =
                  IF reset_time # NoTime THEN reset_time ELSE t + RATE_LIMIT_DEFAULT]

\* KeyPair.record_rate_limit at time t; reset_time may be NoTime (None)
record_rate_limit(k, t, reset_time) ==
    [k EXCEPT !.total_requests = @ + 1,
              !.rate_limited_requests = @ + 1,
              !.last_rate_limit = t,
              !.health = RATE_LIMITED,
              !.rate_limit_reset_time =
                  IF reset_time # NoTime THEN reset_time ELSE t + RATE_LIMIT_DEFAULT]

\* mutant of record_error: the event is not counted in total_requests
record_error_uncounted(k, t) ==
    [k EXCEPT !.error_requests = @ + 1,
              !.last_error = t,
              !.consecutive_failures = @ + 1]

\* KeyPair.record_error at time t
record_error(k, t) ==
    [k EXCEPT !.total_requests = @ + 1,
              !.error_requests = @ + 1,
              !.last_error = t,
              !.consecutive_failures = @ + 1]

\* mutant of trigger_circuit_breaker: a reset time that is set is kept
trigger_circuit_breaker_stale(k, t, timeout) ==
    [k EXCEPT !.health = ERROR,
              !.circuit_breaker_reset_time = IF @ = NoTime THEN t + timeout ELSE @]

\* KeyPair.trigger_circuit_breaker at time t
trigger_circuit_breaker(k, t, timeout) ==
    [k EXCEPT !.health = ERROR,
              !.circuit_breaker_reset_time = t + timeout]

\* mutant of get_success_rate: rate-limited requests are left out of the total
get_success_rate_served(k) ==
    IF k.total_requests - k.rate_limited_requests = 0 THEN [num |-> 0, den |-> 1]
    ELSE [num |-> k.successful_requests,
          den |-> k.total_requests - k.rate_limited_requests]

\* KeyPair.get_success_rate: the float 0.0 or successful_requests /
\* total_requests, as a fraction num / den
get_success_rate(k) ==
    IF k.total_requests = 0 THEN [num |-> 0, den |-> 1]
    ELSE [num |-> k.successful_requests, den |-> k.total_requests]

\* KeyPair.get_weight, in hundredths.  success_rate > 0.95 is
\* 100 * num > 95 * den.
get_weight(k) ==
    LET success_rate == get_success_rate(k)
    IN  IF k.consecutive_failures > 3 THEN (k.weight * 10) \div 100
        ELSE IF k.consecutive_failures > 0 THEN (k.weight * 50) \div 100
        ELSE IF 100 * success_rate.num > 95 * success_rate.den
             THEN (k.weight * 120) \div 100
        ELSE k.weight

(* ----------------------------- error texts ---------------------------- *)

Range(s) == {s[i] : i \in 1..Len(s)}

\* str(exception) is a tuple of one-character strings
UPPERCASE ==
    <<"A", "B", "C", "D", "E", "F", "G", "H", "I", "J", "K", "L", "M", "N",
      "O", "P", "Q", "R", "S", "T", "U", "V", "W", "X", "Y", "Z">>
LOWERCASE ==
    <<"a", "b", "c", "d", "e", "f", "g", "h", "i", "j", "k", "l", "m", "n",
      "o", "p", "q", "r", "s", "t", "u", "v", "w", "x", "y", "z">>

\* str.lower() of one character: the letters are mapped, the rest is kept
LowerOf ==
    [c \in Range(UPPERCASE) |->
        LOWERCASE[CHOOSE i \in 1..Len(UPPERCASE) : UPPERCASE[i] = c]]

LowerChar(c) == IF c \in DOMAIN LowerOf THEN LowerOf[c] ELSE c

Lower(text) == [i \in 1..Len(text) |-> LowerChar(text[i])]

\* Python's `sub in text`
Contains(text, sub) ==
    \E i \in 1..(Len(text) - Len(sub) + 1) :
        \A j \in 1..Len(sub) : text[i + j - 1] = sub[j]

\* rate_limit_indicators of detect_rate_limit_error
RATE_LIMIT ==
    <<"r", "a", "t", "e", " ", "l", "i", "m", "i", "t">>
CODE_429 ==
    <<"4", "2", "9">>
TOO_MANY_REQUESTS ==
    <<"t", "o", "o", " ", "m", "a", "n", "y", " ", "r", "e", "q", "u", "e",
      "s", "t", "s">>
QUOTA_EXCEEDED ==
    <<"q", "u", "o", "t", "a", " ", "e", "x", "c", "e", "e", "d", "e", "d">>
THROTTLED ==
    <<"t", "h", "r", "o", "t", "t", "l", "e", "d">>
rate_limit_indicators ==
    {RATE_LIMIT, CODE_429, TOO_MANY_REQUESTS, QUOTA_EXCEEDED, THROTTLED}

\* the codes the wrapper takes for an authentication error
CODE_401 ==
    <<"4", "0", "1">>
CODE_403 ==
    <<"4", "0", "3">>

\* what a called operation can raise
Error401 ==
    <<"4", "0", "1", " ", "U", "n", "a", "u", "t", "h", "o", "r", "i", "z",
      "e", "d">>
Error403 ==
    <<"4", "0", "3", " ", "F", "o", "r", "b", "i", "d", "d", "e", "n">>
Error429 ==
    <<"4", "2", "9", " ", "T", "o", "o", " ", "M", "a", "n", "y", " ", "R",
      "e", "q", "u", "e", "s", "t", "s">>
Error500 ==
    <<"5", "0", "0", " ", "I", "n", "t", "e", "r", "n", "a", "l", " ", "S",
      "e", "r", "v", "e", "r", " ", "E", "r", "r", "o", "r">>
Error403Quota ==
    <<"4", "0", "3", " ", "F", "o", "r", "b", "i", "d", "d", "e", "n", ":",
      " ", "R", "a", "t", "e", " ", "L", "i", "m", "i", "t", " ", "E", "x",
      "c", "e", "e", "d", "e", "d">>
\* RuntimeError("No available API keys")
NoAvailableKeys ==
    <<"N", "o", " ", "a", "v", "a", "i", "l", "a", "b", "l", "e", " ", "A",
      "P", "I", " ", "k", "e", "y", "s">>
ErrorTexts == {Error401, Error403, Error429, Error500, Error403Quota}

\* `any(indicator in error_str for indicator in rate_limit_indicators)` with
\* error_str = str(exception).lower(), for each text an operation can raise
any_indicator_in ==
    [text \in ErrorTexts |->
        LET error_str == Lower(text)
        IN  \E indicator \in rate_limit_indicators : Contains(error_str, indicator)]

\* `"401" in str(e) or "403" in str(e)`, for each text an operation can raise
auth_code_in ==
    [text \in ErrorTexts |-> Contains(text, CODE_401) \/ Contains(text, CODE_403)]

\* detect_rate_limit_error(exception) at time t: <<is_rate_limited, reset_time>>
detect_rate_limit_error(text, t) ==
    IF any_indicator_in[text]
    THEN <<TRUE, t + RATE_LIMIT_DEFAULT>>
    ELSE <<FALSE, NoTime>>

\* mutant of is_authentication_error: only "403" is looked for
is_authentication_error_403(text) == Contains(text, CODE_403)

\* mutant of is_authentication_error: only "401" is looked for
is_authentication_error_401(text) == Contains(text, CODE_401)

\* the wrapper's test on the exception it caught
is_authentication_error(text) == auth_code_in[text]

(* ------------------------------- state -------------------------------- *)

\* threads that call the wrapped operation
Threads == {"t1", "t2"}

\* threads that start_health_monitoring creates
Loops == {"h1", "h2", "h3"}

\* _health_check_thread is None; _lock has no owner
NoThread == "none"

\* KeyPair.site when none is given
DefaultSite == "us3.datadoghq.com"

\* get_pool_status has not returned yet
NoStatus == [total_keys |-> -1, available_keys |-> -1]

VARIABLES
    now,                        \* datetime.now(timezone.utc), in ticks
    keys,                       \* KeyPoolManager.keys, as the sequence of ids
    key,                        \* the KeyPair object of each id
    key_id,                     \* KeyPair.id of each of them
    key_site,                   \* KeyPair.site of each of them
    rotation_strategy,          \* KeyPoolManager.rotation_strategy
    circuit_breaker_threshold,  \* KeyPoolManager.circuit_breaker_threshold
    circuit_breaker_timeout,    \* KeyPoolManager.circuit_breaker_timeout
    current_index,              \* KeyPoolManager._current_index
    lru_order,                  \* KeyPoolManager._lru_order
    shutdown,                   \* KeyPoolManager._shutdown
    health_check_thread,        \* KeyPoolManager._health_check_thread
    loops,                      \* where each thread of _health_check_loop is
    lock,                       \* KeyPoolManager._lock: its owner and depth
    status,                     \* what get_pool_status returned last
    pc,                         \* where each thread is in wrapper
    max_retries,                \* the wrapper's max_retries, per thread
    attempt,                    \* the wrapper's loop variable, per thread
    available_keys,             \* get_key_by_strategy's local list, per thread
    key_pair,                   \* the wrapper's key_pair, per thread
    last_exception,             \* the wrapper's last_exception, per thread
    raised,                     \* the exception the call ended with, per thread
    result,                     \* the key whose result the call returned, per thread
    hist,                       \* history: the invocations of func in the call
    recs,                       \* history: the events the call recorded
    slept,                      \* history: the seconds of each time.sleep of the call
    selects,                    \* history: get_key_by_strategy calls of the call
    no_key,                     \* history: the call ended on an empty selection
    n_calls,                    \* history: calls started, per thread
    n_selects,                  \* history: round-robin selections made on the pool
    returned,                   \* history: what the last of them returned
    all_eligible,               \* history: each of them found every key eligible
    last_reset,                 \* history: latest rate-limit reset time recorded, per id
    opened_reset,               \* history: reset time of the latest circuit opening, per id
    streak,                     \* history: "error" events since the last "success", per id
    tally,                      \* history: events and "success" events recorded, per id
    owed,                       \* history: see RoundRobinOwed
    owed_stable,                \* history: see RoundRobinOwedStable
    prev_avail,                 \* history: the eligible list of the previous selection
    stable_run                  \* history: selections in a row that found that list

poolVars == <<keys, key, key_id, key_site, rotation_strategy, circuit_breaker_threshold,
              circuit_breaker_timeout, current_index, lru_order>>
monitorVars == <<shutdown, health_check_thread, loops, lock, status>>
threadVars == <<pc, max_retries, attempt, available_keys, key_pair,
                last_exception, raised, result, hist, recs, slept, selects, no_key,
                n_calls>>
histVars == <<n_selects, returned, all_eligible, last_reset, opened_reset,
              streak, tally, owed, owed_stable, prev_avail, stable_run>>
vars == <<now, poolVars, monitorVars, threadVars, histVars>>

(* --------------------------- KeyPoolManager --------------------------- *)

\* [k for k in keys if pred(k)], order kept
RECURSIVE Filter(_, _)
Filter(s, ok) ==
    IF s = <<>> THEN <<>>
    ELSE IF Head(s) \in ok THEN <<Head(s)>> \o Filter(Tail(s), ok)
    ELSE Filter(Tail(s), ok)

\* KeyPoolManager.get_available_keys, its side effect: every key of the pool
\* has had is_available evaluated at time t
HealAll(kf, pool, t) ==
    [id \in DOMAIN kf |-> IF id \in Range(pool) THEN Heal(kf[id], t) ELSE kf[id]]

\* KeyPoolManager.get_available_keys, its result
get_available_keys(kf, pool, t) ==
    Filter(pool, {id \in Range(pool) : is_available(kf[id], t)})

\* mutant of select_round_robin: the cursor is not advanced
select_round_robin_stuck(avail, idx) ==
    [key |-> avail[(idx % Len(avail)) + 1],
     index |-> idx]

\* mutant of select_round_robin: the cursor is sent back to the first slot
select_round_robin_rewound(avail, idx) ==
    [key |-> avail[(idx % Len(avail)) + 1],
     index |-> 0]

\* mutant of select_round_robin: the cursor is advanced but not read
select_round_robin_first(avail, idx) ==
    [key |-> avail[1],
     index |-> (idx + 1) % Len(avail)]

\* KeyPoolManager._select_round_robin: the key and the new _current_index
select_round_robin(avail, idx) ==
    [key |-> avail[(idx % Len(avail)) + 1],
     index |-> (idx + 1) % Len(avail)]

\* sorted(available_keys, key=last_used or datetime.min): a stable sort
RECURSIVE SortedInsert(_, _, _)
SortedInsert(s, id, kf) ==
    IF s = <<>> THEN <<id>>
    ELSE IF kf[id].last_used < kf[Head(s)].last_used THEN <<id>> \o s
    ELSE <<Head(s)>> \o SortedInsert(Tail(s), id, kf)

RECURSIVE sorted_keys(_, _)
sorted_keys(avail, kf) ==
    IF avail = <<>> THEN <<>>
    ELSE SortedInsert(sorted_keys(SubSeq(avail, 1, Len(avail) - 1), kf),
                      avail[Len(avail)], kf)

\* list.remove(x): the first x of the list goes
RECURSIVE remove_first(_, _)
remove_first(s, x) ==
    IF s = <<>> THEN <<>>
    ELSE IF Head(s) = x THEN Tail(s)
    ELSE <<Head(s)>> \o remove_first(Tail(s), x)

\* mutant of select_lru: _lru_order is left as it is
select_lru_unmoved(avail, kf, lru, ids) ==
    [key |-> sorted_keys(avail, kf)[1],
     lru |-> lru]

\* KeyPoolManager._select_lru: the key and the new _lru_order
select_lru(avail, kf, lru, ids) ==
    LET selected_key == sorted_keys(avail, kf)[1]
    IN  [key |-> selected_key,
         lru |-> remove_first(lru, ids[selected_key]) \o <<ids[selected_key]>>]

\* sum(weights[:n])
RECURSIVE Cumulative(_, _, _)
Cumulative(avail, kf, n) ==
    IF n = 0 THEN 0 ELSE Cumulative(avail, kf, n - 1) + get_weight(kf[avail[n]])

\* KeyPoolManager._select_weighted with r = random.random() * total_weight, in
\* hundredths, and u the index random.choice draws
select_weighted(avail, kf, r, u) ==
    LET total_weight == Cumulative(avail, kf, Len(avail))
        hit == {i \in 1..Len(avail) : r <= Cumulative(avail, kf, i)}
    IN  IF total_weight = 0 THEN avail[u]
        ELSE IF hit # {} THEN avail[CHOOSE i \in hit : \A j \in hit : i <= j]
        ELSE avail[Len(avail)]

\* mutant of rate_limited_recently: a rate limit of exactly 30 minutes ago
\* still counts
rate_limited_recently_inclusive(kf, pool, t) ==
    {id \in Range(pool) : kf[id].last_rate_limit # NoTime
                          /\ t - kf[id].last_rate_limit <= ADAPTIVE_WINDOW}

\* the rate_limited_recently test of _select_adaptive, over the whole pool
rate_limited_recently(kf, pool, t) ==
    {id \in Range(pool) : kf[id].last_rate_limit # NoTime
                          /\ t - kf[id].last_rate_limit < ADAPTIVE_WINDOW}

\* KeyPoolManager._select_adaptive: the key and the new _lru_order
select_adaptive(avail, kf, pool, lru, ids, t, r, u) ==
    IF rate_limited_recently(kf, pool, t) # {}
    THEN [key |-> select_weighted(avail, kf, r, u), lru |-> lru]
    ELSE select_lru(avail, kf, lru, ids)

\* the strategy dispatch of get_key_by_strategy on a non-empty list:
\* the key, the new _current_index and the new _lru_order
select_by_strategy(strategy, avail, kf, pool, ids, idx, lru, t, r, u) ==
    LET same == [key |-> None, index |-> idx, lru |-> lru]
        rr == select_round_robin(avail, idx)
        l == select_lru(avail, kf, lru, ids)
        w == select_weighted(avail, kf, r, u)
        a == select_adaptive(avail, kf, pool, lru, ids, t, r, u)
    IN  CASE strategy = ROUND_ROBIN -> [same EXCEPT !.key = rr.key, !.index = rr.index]
          [] strategy = LEAST_RECENTLY_USED -> [same EXCEPT !.key = l.key, !.lru = l.lru]
          [] strategy = WEIGHTED -> [same EXCEPT !.key = w]
          [] strategy = ADAPTIVE -> [same EXCEPT !.key = a.key, !.lru = a.lru]
          [] strategy = RANDOM -> [same EXCEPT !.key = avail[u]]
          [] OTHER -> [same EXCEPT !.key = avail[1]]

\* the values of random.random() * total_weight worth telling apart: 0 and the
\* points next to each cumulative weight, below total_weight
Draws(avail, kf) ==
    LET total_weight == Cumulative(avail, kf, Len(avail))
        cums == {Cumulative(avail, kf, i) : i \in 1..Len(avail)}
    IN  {0} \cup {r \in cums \cup {c - 1 : c \in cums} : r >= 0 /\ r < total_weight}

\* mutant of record_key_event: the circuit opens one failure late
record_key_event_late(k, event_type, t, reset_time, threshold, timeout) ==
    CASE event_type = "success" -> record_success(k, t)
      [] event_type = "rate_limit" -> record_rate_limit(k, t, reset_time)
      [] event_type = "error" ->
            LET e == record_error(k, t)
            IN  IF e.consecutive_failures > threshold
                THEN trigger_circuit_breaker(e, t, timeout)
                ELSE e
      [] OTHER -> k

\* mutant of record_key_event: an event of an unknown type counts as an error
record_key_event_lenient(k, event_type, t, reset_time, threshold, timeout) ==
    CASE event_type = "success" -> record_success(k, t)
      [] event_type = "rate_limit" -> record_rate_limit(k, t, reset_time)
      [] event_type = "error" ->
            LET e == record_error(k, t)
            IN  IF e.consecutive_failures >= threshold
                THEN trigger_circuit_breaker(e, t, timeout)
                ELSE e
      [] OTHER -> record_error(k, t)

\* the dispatch of record_key_event on a key of the pool
record_key_event(k, event_type, t, reset_time, threshold, timeout) ==
    CASE event_type = "success" -> record_success(k, t)
      [] event_type = "rate_limit" -> record_rate_limit(k, t, reset_time)
      [] event_type = "error" ->
            LET e == record_error(k, t)
            IN  IF e.consecutive_failures >= threshold
                THEN trigger_circuit_breaker(e, t, timeout)
                ELSE e
      [] OTHER -> k

(* ------------------------ history bookkeeping ------------------------- *)

\* the ids get_available_keys would return
Eligible(kf, pool, t) == Range(get_available_keys(kf, pool, t))

\* RoundRobinOwed: owed[s] is the set of ids that have been eligible in every
\* state since s was last returned and have not been returned since.
OwedAfterStep(kf, pool, t) ==
    IF rotation_strategy # ROUND_ROBIN THEN owed
    ELSE [id \in KeyIds |-> owed[id] \cap Eligible(kf, pool, t)]

OwedAfterSelect(s, avail) ==
    [id \in KeyIds |-> IF id = s THEN Range(avail) \ {s}
                       ELSE (owed[id] \ {s}) \cap Range(avail)]

\* RoundRobinOwedStable: the same, counted only while every selection sees the
\* eligible list the previous selection saw.
OwedStableAfterSelect(s, avail) ==
    [id \in KeyIds |-> IF id = s THEN Range(avail) \ {s}
                       ELSE IF avail = prev_avail THEN owed_stable[id] \ {s}
                       ELSE {}]

(* ------------------- the pool, called by one caller ------------------- *)

\* the record_key_event calls made so far: each adds one to a total_requests
RECURSIVE TotalRequests(_, _)
TotalRequests(kf, pool) ==
    IF pool = <<>> THEN 0
    ELSE kf[Head(pool)].total_requests + TotalRequests(kf, Tail(pool))

\* the clock advances by one tick
Tick ==
    /\ now < MaxTime
    /\ now' = now + 1
    /\ owed' = OwedAfterStep(key, keys, now + 1)
    /\ UNCHANGED <<poolVars, monitorVars, threadVars, n_selects, returned,
                   all_eligible, last_reset, opened_reset, streak, tally, owed_stable,
                   prev_avail, stable_run>>

\* KeyPoolManager.record_key_event(id, event_type, reset_time=...): its effect
\* on the pool; an id that is not in the pool changes nothing
RecordEffect(id, event_type, reset_time) ==
    IF id \notin Range(keys)
    THEN UNCHANGED <<key, last_reset, opened_reset, streak, tally, owed>>
    ELSE
    LET k == record_key_event(key[id], event_type, now, reset_time,
                              circuit_breaker_threshold, circuit_breaker_timeout)
        kf == [key EXCEPT ![id] = k]
    IN  /\ key' = kf
        /\ last_reset' = IF event_type = "rate_limit"
                         THEN [last_reset EXCEPT ![id] = k.rate_limit_reset_time]
                         ELSE last_reset
        /\ opened_reset' = IF event_type = "error"
                              /\ k.consecutive_failures >= circuit_breaker_threshold
                           THEN [opened_reset EXCEPT ![id] = k.circuit_breaker_reset_time]
                           ELSE opened_reset
        /\ streak' = CASE event_type = "error" -> [streak EXCEPT ![id] = @ + 1]
                        [] event_type = "success" -> [streak EXCEPT ![id] = 0]
                        [] OTHER -> streak
        /\ tally' = [tally EXCEPT ![id] =
                        [events |-> @.events + 1,
                         successes |-> @.successes +
                                          (IF event_type = "success" THEN 1 ELSE 0)]]
        /\ owed' = OwedAfterStep(kf, keys, now)

\* record_key_event called directly on the pool
RecordKeyEvent(id, event_type, reset_time) ==
    /\ id \in Range(keys)
    /\ TotalRequests(key, keys) < MaxEvents
    /\ RecordEffect(id, event_type, reset_time)
    /\ UNCHANGED <<now, keys, rotation_strategy, circuit_breaker_threshold,
                   circuit_breaker_timeout, key_id, key_site, monitorVars,
                   current_index, lru_order, threadVars,
                   n_selects, returned, all_eligible, owed_stable, prev_avail,
                   stable_run>>

\* mutant of no_available_keys: the cursor is sent back to the first slot
no_available_keys_rewinding(idx, lru) ==
    [key |-> None, index |-> 0, lru |-> IF lru = <<>> THEN lru ELSE Tail(lru) \o <<Head(lru)>>]

\* get_key_by_strategy, lines 211-213: no key is available; None is
\* returned, _current_index and _lru_order are not touched
no_available_keys(idx, lru) ==
    [key |-> None, index |-> idx, lru |-> lru]

\* the draws of the random module one selection may read
Randoms(strategy, avail, kf, pool, t) ==
    IF strategy \in {WEIGHTED, RANDOM}
       \/ (strategy = ADAPTIVE /\ rate_limited_recently(kf, pool, t) # {})
    THEN Draws(avail, kf) \X (1..Len(avail))
    ELSE {<<0, 1>>}

\* KeyPoolManager.get_key_by_strategy(), with no other caller in between
Select ==
    /\ IF rotation_strategy = ROUND_ROBIN
       THEN n_selects < MaxSelects /\ n_selects' = n_selects + 1
       ELSE n_selects' = n_selects
    /\ LET avail == get_available_keys(key, keys, now)
           kf == HealAll(key, keys, now)
       IN  /\ key' = kf
           /\ all_eligible' = (all_eligible /\ Len(avail) = Len(keys))
           /\ IF avail = <<>>
              THEN /\ returned' = no_available_keys(current_index, lru_order).key
                   /\ current_index' = no_available_keys(current_index, lru_order).index
                   /\ lru_order' = no_available_keys(current_index, lru_order).lru
                   /\ owed' = OwedAfterStep(kf, keys, now)
                   /\ UNCHANGED <<owed_stable, prev_avail, stable_run>>
              ELSE \E ru \in Randoms(rotation_strategy, avail, kf, keys, now) :
                     LET s == select_by_strategy(rotation_strategy, avail, kf, keys,
                                                 key_id, current_index, lru_order, now,
                                                 ru[1], ru[2])
                     IN  /\ returned' = s.key
                         /\ current_index' = s.index
                         /\ lru_order' = s.lru
                         /\ IF rotation_strategy = ROUND_ROBIN
                            THEN /\ owed' = OwedAfterSelect(s.key, avail)
                                 /\ owed_stable' = OwedStableAfterSelect(s.key, avail)
                                 /\ prev_avail' = avail
                                 /\ stable_run' = IF avail = prev_avail
                                                  THEN stable_run + 1 ELSE 1
                            ELSE UNCHANGED <<owed, owed_stable, prev_avail, stable_run>>
    /\ UNCHANGED <<now, keys, rotation_strategy, circuit_breaker_threshold,
                   circuit_breaker_timeout, key_id, key_site, monitorVars,
                   threadVars, last_reset, opened_reset,
                   streak, tally>>

\* KeyPoolManager.get_pool_status(): its only effect is that of get_available_keys
Status ==
    /\ key' = HealAll(key, keys, now)
    /\ key' # key
    /\ owed' = OwedAfterStep(key', keys, now)
    /\ UNCHANGED <<now, keys, rotation_strategy, circuit_breaker_threshold,
                   circuit_breaker_timeout, key_id, key_site, monitorVars,
                   current_index, lru_order, threadVars,
                   n_selects, returned, all_eligible, last_reset,
                   opened_reset, streak, tally, owed_stable, prev_avail, stable_run>>

\* mutant of perform_health_checks: an error of exactly 5 minutes ago is old
\* enough
perform_health_checks_at_grace(kf, pool, t) ==
    [id \in DOMAIN kf |->
        IF id \in Range(pool) /\ kf[id].health = TESTING
           /\ (kf[id].last_error = NoTime \/ t - kf[id].last_error >= HEALTH_GRACE)
        THEN [kf[id] EXCEPT !.health = HEALTHY]
        ELSE kf[id]]

\* KeyPoolManager._perform_health_checks(): one scan of the health loop
perform_health_checks(kf, pool, t) ==
    [id \in DOMAIN kf |->
        IF id \in Range(pool) /\ kf[id].health = TESTING
           /\ (kf[id].last_error = NoTime \/ t - kf[id].last_error > HEALTH_GRACE)
        THEN [kf[id] EXCEPT !.health = HEALTHY]
        ELSE kf[id]]

HealthScan ==
    /\ key' = perform_health_checks(key, keys, now)
    /\ key' # key
    /\ owed' = OwedAfterStep(key', keys, now)
    /\ UNCHANGED <<now, keys, rotation_strategy, circuit_breaker_threshold,
                   circuit_breaker_timeout, key_id, key_site, monitorVars,
                   current_index, lru_order, threadVars,
                   n_selects, returned, all_eligible, last_reset,
                   opened_reset, streak, tally, owed_stable, prev_avail, stable_run>>

\* the reset_time arguments of a direct record_key_event: none, or a time
ResetTimes == {NoTime} \cup {now + d : d \in 1..MaxResetDelay}

InitThreads ==
    /\ pc = [t \in Threads |-> "idle"]
    /\ max_retries = [t \in Threads |-> 0]
    /\ attempt = [t \in Threads |-> 0]
    /\ available_keys = [t \in Threads |-> <<>>]
    /\ key_pair = [t \in Threads |-> None]
    /\ last_exception = [t \in Threads |-> NoException]
    /\ raised = [t \in Threads |-> NoException]
    /\ result = [t \in Threads |-> None]
    /\ hist = [t \in Threads |-> <<>>]
    /\ recs = [t \in Threads |-> <<>>]
    /\ slept = [t \in Threads |-> <<>>]
    /\ selects = [t \in Threads |-> 0]
    /\ no_key = [t \in Threads |-> FALSE]
    /\ n_calls = [t \in Threads |-> 0]

\* KeyPoolManager.__init__: no monitoring thread, the lock free
InitMonitor ==
    /\ shutdown = FALSE
    /\ health_check_thread = NoThread
    /\ loops = [l \in Loops |-> "unborn"]
    /\ lock = [owner |-> NoThread, depth |-> 0]
    /\ status = NoStatus

InitHistory ==
    /\ n_selects = 0
    /\ returned = None
    /\ all_eligible = TRUE
    /\ last_reset = [id \in KeyIds |-> NoTime]
    /\ opened_reset = [id \in KeyIds |-> NoTime]
    /\ streak = [id \in KeyIds |-> 0]
    /\ tally = [id \in KeyIds |-> [events |-> 0, successes |-> 0]]
    /\ owed = [id \in KeyIds |-> {}]
    /\ owed_stable = [id \in KeyIds |-> {}]
    /\ prev_avail = <<>>
    /\ stable_run = 0

\* KeyPoolManager(strategy, threshold, timeout) followed by add_key of n fresh keys
InitPool(n, strategies) ==
    /\ now = 0
    /\ keys = [i \in 1..n |-> i]
    /\ key = [id \in KeyIds |-> KeyPair]
    /\ rotation_strategy \in strategies
    /\ circuit_breaker_threshold \in 1..MaxThreshold
    /\ circuit_breaker_timeout = CIRCUIT_BREAKER_TIMEOUT
    /\ current_index = 0
    /\ lru_order = [i \in 1..n |-> i]
    /\ key_id = [id \in KeyIds |-> id]
    /\ key_site = [id \in KeyIds |-> DefaultSite]

Init ==
    /\ InitPool(PoolKeys, {ADAPTIVE})
    /\ InitThreads
    /\ InitMonitor
    /\ InitHistory

Next ==
    \/ Tick
    \/ \E id \in KeyIds, reset_time \in ResetTimes :
          RecordKeyEvent(id, "rate_limit", reset_time)
    \/ \E id \in KeyIds : RecordKeyEvent(id, "error", NoTime)
    \/ \E id \in KeyIds : RecordKeyEvent(id, "success", NoTime)
    \/ Select
    \/ Status
    \/ HealthScan

Spec == Init /\ [][Next]_vars

\* a pool of one to MaxKeys fresh keys under round-robin
InitRR ==
    /\ \E n \in 1..MaxKeys : InitPool(n, {ROUND_ROBIN})
    /\ InitThreads
    /\ InitMonitor
    /\ InitHistory

NextRR ==
    \/ Tick
    \/ \E id \in KeyIds, d \in 1..MaxResetDelay :
          RecordKeyEvent(id, "rate_limit", now + d)
    \/ \E id \in KeyIds : RecordKeyEvent(id, "error", NoTime)
    \/ Select

SpecRR == InitRR /\ [][NextRR]_vars

\* the key pairs is_available is evaluated on: every health, with every pair
\* of reset times
KeyPairStates ==
    {[KeyPair EXCEPT !.health = h,
                     !.rate_limit_reset_time = r,
                     !.circuit_breaker_reset_time = c] :
        h \in KeyHealth,
        r \in {NoTime} \cup (0..MaxTime),
        c \in {NoTime} \cup (0..MaxTime)}

\* a pool of one key pair in any of those states
InitAvail ==
    /\ now = 0
    /\ keys = <<1>>
    /\ \E k \in KeyPairStates : key = [id \in KeyIds |-> IF id = 1 THEN k ELSE KeyPair]
    /\ rotation_strategy = ADAPTIVE
    /\ circuit_breaker_threshold = MaxThreshold
    /\ circuit_breaker_timeout = CIRCUIT_BREAKER_TIMEOUT
    /\ current_index = 0
    /\ lru_order = <<1>>
    /\ key_id = [id \in KeyIds |-> id]
    /\ key_site = [id \in KeyIds |-> DefaultSite]
    /\ InitThreads
    /\ InitMonitor
    /\ InitHistory

\* is_available is evaluated by get_pool_status, at every clock value
NextAvail ==
    \/ Tick
    \/ Status

SpecAvail == InitAvail /\ [][NextAvail]_vars

(* ------------- the wrapper of create_retry_decorator ----------------- *)

\* mutant of on_exception: the authentication test comes first
on_exception_auth_first(text, t, att, retries) ==
    LET d == detect_rate_limit_error(text, t)
    IN  IF is_authentication_error(text)
        THEN [event |-> "error", reset_time |-> NoTime, then |-> "raise"]
        ELSE IF d[1]
        THEN [event |-> "rate_limit", reset_time |-> d[2], then |-> "continue"]
        ELSE [event |-> "error", reset_time |-> NoTime,
              then |-> IF att = retries - 1 THEN "raise" ELSE "sleep"]

\* the except branch of the wrapper on attempt `att`: the event it records and
\* how it goes on ("continue", "raise" or "sleep")
on_exception(text, t, att, retries) ==
    LET d == detect_rate_limit_error(text, t)
    IN  IF d[1]
        THEN [event |-> "rate_limit", reset_time |-> d[2], then |-> "continue"]
        ELSE [event |-> "error", reset_time |-> NoTime,
              then |-> IF is_authentication_error(text) THEN "raise"
                       ELSE IF att = retries - 1 THEN "raise"
                       ELSE "sleep"]

\* mutant of sleep_seconds: the delay grows linearly
sleep_seconds_linear(att) == 2 * att

\* line 562: the argument of time.sleep on attempt `att`
sleep_seconds(att) == 2 ^ att

callerVars == <<n_selects, returned, all_eligible, owed_stable, prev_avail,
                stable_run>>

\* wrapper(*args, **kwargs) is called with the decorator's max_retries = retries
StartCall(p, retries) ==
    /\ pc[p] \in {"idle", "done"}
    /\ n_calls[p] < MaxCalls
    /\ n_calls' = [n_calls EXCEPT ![p] = @ + 1]
    /\ pc' = [pc EXCEPT ![p] = "loop"]
    /\ max_retries' = [max_retries EXCEPT ![p] = retries]
    /\ attempt' = [attempt EXCEPT ![p] = 0]
    /\ last_exception' = [last_exception EXCEPT ![p] = NoException]
    /\ raised' = [raised EXCEPT ![p] = NoException]
    /\ result' = [result EXCEPT ![p] = None]
    /\ key_pair' = [key_pair EXCEPT ![p] = None]
    /\ available_keys' = [available_keys EXCEPT ![p] = <<>>]
    /\ hist' = [hist EXCEPT ![p] = <<>>]
    /\ recs' = [recs EXCEPT ![p] = <<>>]
    /\ slept' = [slept EXCEPT ![p] = <<>>]
    /\ selects' = [selects EXCEPT ![p] = 0]
    /\ no_key' = [no_key EXCEPT ![p] = FALSE]
    /\ UNCHANGED <<now, poolVars, monitorVars, callerVars, last_reset, opened_reset, streak, tally,
                   owed>>

\* mutant of in_range: one attempt too many
in_range_inclusive(att, retries) == att <= retries

\* `for attempt in range(max_retries)`: the loop has an attempt `att` to make
in_range(att, retries) == att < retries

\* mutant of no_key_error: the last exception, also when there is none
no_key_error_last(last) == last

\* lines 510-513: what the wrapper raises when no key pair was selected
no_key_error(last) ==
    IF last # NoException THEN last ELSE NoAvailableKeys

\* line 209 of get_key_by_strategy, and lines 508-513 when the list is empty
GetKeys(p) ==
    /\ pc[p] = "loop"
    /\ in_range(attempt[p], max_retries[p])
    /\ selects' = [selects EXCEPT ![p] = @ + 1]
    /\ key' = HealAll(key, keys, now)
    /\ owed' = OwedAfterStep(key', keys, now)
    /\ LET avail == get_available_keys(key, keys, now)
       IN  /\ available_keys' = [available_keys EXCEPT ![p] = avail]
           /\ IF avail = <<>>
              THEN /\ pc' = [pc EXCEPT ![p] = "done"]
                   /\ no_key' = [no_key EXCEPT ![p] = TRUE]
                   /\ raised' = [raised EXCEPT ![p] = no_key_error(last_exception[p])]
              ELSE /\ pc' = [pc EXCEPT ![p] = "choose"]
                   /\ UNCHANGED <<no_key, raised>>
    /\ UNCHANGED <<now, keys, rotation_strategy, circuit_breaker_threshold,
                   circuit_breaker_timeout, key_id, key_site, monitorVars,
                   current_index, lru_order, max_retries,
                   attempt, key_pair, last_exception, result, hist, recs, slept, n_calls,
                   callerVars, last_reset, opened_reset, streak, tally>>

\* lines 215-227 of get_key_by_strategy: the choice, under the lock again
ChooseKey(p) ==
    /\ pc[p] = "choose"
    /\ \E ru \in Randoms(rotation_strategy, available_keys[p], key, keys, now) :
          LET s == select_by_strategy(rotation_strategy, available_keys[p], key, keys,
                                      key_id, current_index, lru_order, now, ru[1], ru[2])
          IN  /\ key_pair' = [key_pair EXCEPT ![p] = s.key]
              /\ current_index' = s.index
              /\ lru_order' = s.lru
    /\ pc' = [pc EXCEPT ![p] = "call"]
    /\ UNCHANGED <<now, keys, key, rotation_strategy, circuit_breaker_threshold,
                   circuit_breaker_timeout, key_id, key_site, monitorVars,
                   max_retries, attempt, available_keys,
                   last_exception, raised, result, hist, recs, slept, selects, no_key,
                   n_calls, histVars>>

\* func(key_pair, *args, **kwargs) returns (NoException) or raises `out`
Invoke(p, out) ==
    /\ pc[p] = "call"
    /\ hist' = [hist EXCEPT ![p] = Append(@, [key |-> key_pair[p], out |-> out,
                                               n |-> Len(available_keys[p])])]
    /\ pc' = [pc EXCEPT ![p] = "record"]
    /\ UNCHANGED <<now, poolVars, monitorVars, max_retries, attempt, available_keys, key_pair,
                   last_exception, raised, result, recs, slept, selects, no_key, n_calls,
                   histVars>>

\* lines 521-529: the call returned
RecordSuccess(p) ==
    /\ pc[p] = "record"
    /\ hist[p][Len(hist[p])].out = NoException
    /\ RecordEffect(key_pair[p], "success", NoTime)
    /\ recs' = [recs EXCEPT ![p] = Append(@, [key |-> key_pair[p], event |-> "success"])]
    /\ result' = [result EXCEPT ![p] = key_pair[p]]
    /\ pc' = [pc EXCEPT ![p] = "done"]
    /\ UNCHANGED <<now, keys, rotation_strategy, circuit_breaker_threshold,
                   circuit_breaker_timeout, key_id, key_site, monitorVars,
                   current_index, lru_order, max_retries,
                   attempt, available_keys, key_pair, last_exception, raised, hist,
                   slept, selects, no_key, n_calls, callerVars>>

\* lines 531-562: the call raised
RecordFailure(p) ==
    /\ pc[p] = "record"
    /\ hist[p][Len(hist[p])].out # NoException
    /\ LET e == hist[p][Len(hist[p])].out
           d == on_exception(e, now, attempt[p], max_retries[p])
       IN  /\ last_exception' = [last_exception EXCEPT ![p] = e]
           /\ RecordEffect(key_pair[p], d.event, d.reset_time)
           /\ recs' = [recs EXCEPT ![p] = Append(@, [key |-> key_pair[p],
                                                      event |-> d.event])]
           /\ CASE d.then = "continue" ->
                     /\ attempt' = [attempt EXCEPT ![p] = @ + 1]
                     /\ pc' = [pc EXCEPT ![p] = "loop"]
                     /\ UNCHANGED <<raised, slept>>
                [] d.then = "raise" ->
                     /\ raised' = [raised EXCEPT ![p] = e]
                     /\ pc' = [pc EXCEPT ![p] = "done"]
                     /\ UNCHANGED <<attempt, slept>>
                [] OTHER ->
                     /\ slept' = [slept EXCEPT ![p] = Append(@, sleep_seconds(attempt[p]))]
                     /\ pc' = [pc EXCEPT ![p] = "sleep"]
                     /\ UNCHANGED <<attempt, raised>>
    /\ UNCHANGED <<now, keys, rotation_strategy, circuit_breaker_threshold,
                   circuit_breaker_timeout, key_id, key_site, monitorVars,
                   current_index, lru_order, max_retries,
                   available_keys, key_pair, result, hist, selects, no_key, n_calls,
                   callerVars>>

\* line 562: time.sleep(2 ** attempt) is over, the loop goes on
Backoff(p) ==
    /\ pc[p] = "sleep"
    /\ attempt' = [attempt EXCEPT ![p] = @ + 1]
    /\ pc' = [pc EXCEPT ![p] = "loop"]
    /\ UNCHANGED <<now, poolVars, monitorVars, max_retries, available_keys, key_pair,
                   last_exception, raised, result, hist, recs, slept, selects, no_key,
                   n_calls, histVars>>

\* lines 564-566: the loop is over; the last exception is raised, and with none
\* (max_retries = 0) the wrapper returns None
Exhausted(p) ==
    /\ pc[p] = "loop"
    /\ ~in_range(attempt[p], max_retries[p])
    /\ raised' = [raised EXCEPT ![p] = last_exception[p]]
    /\ pc' = [pc EXCEPT ![p] = "done"]
    /\ UNCHANGED <<now, poolVars, monitorVars, max_retries, attempt, available_keys, key_pair,
                   last_exception, result, hist, recs, slept, selects, no_key, n_calls,
                   histVars>>

\* a pool of PoolKeys keys under any strategy, before the wrapper is called:
\* fresh, or with one event already recorded at time 0 on its first key, on
\* its second key, or on both
InitExec ==
    /\ now = 0
    /\ keys = [i \in 1..PoolKeys |-> i]
    /\ rotation_strategy \in RotationStrategy
    /\ circuit_breaker_threshold \in 1..MaxThreshold
    /\ circuit_breaker_timeout = CIRCUIT_BREAKER_TIMEOUT
    /\ current_index = 0
    /\ lru_order = [i \in 1..PoolKeys |-> i]
    /\ key_id = [id \in KeyIds |-> id]
    /\ key_site = [id \in KeyIds |-> DefaultSite]
    /\ \E first \in {"none", "success", "rate_limit"}, second \in {"none", "rate_limit"} :
          LET k(event_type) ==
                  record_key_event(KeyPair, event_type, 0, NoTime,
                                   circuit_breaker_threshold, circuit_breaker_timeout)
          IN  /\ key = [id \in KeyIds |-> CASE id = 1 -> k(first)
                                             [] id = 2 -> k(second)
                                             [] OTHER -> KeyPair]
              /\ last_reset = [id \in KeyIds |-> key[id].rate_limit_reset_time]
              /\ tally = [id \in KeyIds |->
                            [events |-> IF (id = 1 /\ first # "none")
                                           \/ (id = 2 /\ second # "none")
                                        THEN 1 ELSE 0,
                             successes |-> IF id = 1 /\ first = "success"
                                           THEN 1 ELSE 0]]
    /\ InitThreads
    /\ InitMonitor
    /\ n_selects = 0
    /\ returned = None
    /\ all_eligible = TRUE
    /\ opened_reset = [id \in KeyIds |-> NoTime]
    /\ streak = [id \in KeyIds |-> 0]
    /\ owed = [id \in KeyIds |-> {}]
    /\ owed_stable = [id \in KeyIds |-> {}]
    /\ prev_avail = <<>>
    /\ stable_run = 0

\* the one thread that calls the wrapper in SpecExec
Caller == "t1"

NextExec ==
    \/ Tick
    \/ \E retries \in 0..MaxRetries : StartCall(Caller, retries)
    \/ GetKeys(Caller)
    \/ ChooseKey(Caller)
    \/ \E out \in {NoException} \cup ErrorTexts : Invoke(Caller, out)
    \/ RecordSuccess(Caller)
    \/ RecordFailure(Caller)
    \/ Backoff(Caller)
    \/ Exhausted(Caller)

SpecExec == InitExec /\ [][NextExec]_vars

\* a step of the calling thread inside wrapper
CallerStep ==
    \/ GetKeys(Caller)
    \/ ChooseKey(Caller)
    \/ \E out \in {NoException} \cup ErrorTexts : Invoke(Caller, out)
    \/ RecordSuccess(Caller)
    \/ RecordFailure(Caller)
    \/ Backoff(Caller)
    \/ Exhausted(Caller)

\* the thread inside wrapper keeps running: the pool's lock is always released
\* again, func returns or raises, and time.sleep ends; the clock is free
SpecExecFair == SpecExec /\ WF_vars(CallerStep)

\* the outcomes of the operation in the concurrent runs: it returns, or the
\* key it was given is rate-limited
ConcurrentOutcomes == {NoException, Error429}

\* a fresh pool of PoolKeys to MaxKeys keys under round-robin or
\* least-recently-used
InitConc ==
    /\ \E n \in PoolKeys..MaxKeys : InitPool(n, {ROUND_ROBIN, LEAST_RECENTLY_USED})
    /\ InitThreads
    /\ InitMonitor
    /\ InitHistory

\* every thread of Threads calls the wrapper; the steps of the calls interleave
\* wherever the pool's lock is not held
NextConc ==
    \E p \in Threads :
        \/ \E retries \in 1..MaxRetries : StartCall(p, retries)
        \/ GetKeys(p)
        \/ ChooseKey(p)
        \/ \E out \in ConcurrentOutcomes : Invoke(p, out)
        \/ RecordSuccess(p)
        \/ RecordFailure(p)
        \/ Exhausted(p)

SpecConc == InitConc /\ [][NextConc]_vars

\* the outcomes of the operation while circuits are watched: it returns, the
\* key is rate-limited, or the server fails
RaceOutcomes == {NoException, Error429, Error500}

\* a fresh pool of PoolKeys keys under round-robin
InitRace ==
    /\ InitPool(PoolKeys, {ROUND_ROBIN})
    /\ InitThreads
    /\ InitMonitor
    /\ InitHistory

\* every thread of Threads calls the wrapper with up to two attempts; a call
\* may fail while another call with the same key pair is in flight
NextRace ==
    \E p \in Threads :
        \/ \E retries \in 1..2 : StartCall(p, retries)
        \/ GetKeys(p)
        \/ ChooseKey(p)
        \/ \E out \in RaceOutcomes : Invoke(p, out)
        \/ RecordSuccess(p)
        \/ RecordFailure(p)
        \/ Backoff(p)
        \/ Exhausted(p)

SpecRace == InitRace /\ [][NextRace]_vars

(* ------------------- health monitoring and the lock ------------------- *)

\* the wrapper's locals of a thread
callVars == <<max_retries, attempt, available_keys, key_pair, last_exception,
              raised, result, hist, recs, slept, selects, no_key>>

\* mutant of can_acquire: a threading.Lock, which its owner cannot take again
can_acquire_plain(l, p) == l.owner = NoThread

\* threading.RLock of line 177: free, or taken again by its owner
can_acquire(l, p) == l.owner \in {NoThread, p}

\* `with self._lock:` is entered
acquire(l, p) == [owner |-> p, depth |-> l.depth + 1]

\* `with self._lock:` is left
release(l) ==
    IF l.depth <= 1 THEN [owner |-> NoThread, depth |-> 0]
    ELSE [l EXCEPT !.depth = @ - 1]

\* Thread.is_alive(): started and not finished
is_alive(l) == loops[l] \in {"check", "scan", "sleep"}

\* the threads of Loops in the order they are created
LoopSeq == <<"h1", "h2", "h3">>

\* the next thread threading.Thread(...) constructs
NewThread ==
    LoopSeq[CHOOSE i \in 1..Len(LoopSeq) :
                /\ loops[LoopSeq[i]] = "unborn"
                /\ \A j \in 1..(i - 1) : loops[LoopSeq[j]] # "unborn"]

\* start_health_monitoring, line 348: the test
StartCheck(p) ==
    /\ pc[p] = "idle"
    /\ n_calls[p] < MaxMonitorCalls
    /\ Cardinality({l \in Loops : loops[l] = "unborn"})
          > Cardinality({q \in Threads : pc[q] = "start"})
    /\ n_calls' = [n_calls EXCEPT ![p] = @ + 1]
    /\ pc' = [pc EXCEPT ![p] =
                IF health_check_thread = NoThread \/ ~is_alive(health_check_thread)
                THEN "start" ELSE "idle"]
    /\ UNCHANGED <<now, poolVars, monitorVars, callVars, histVars>>

\* start_health_monitoring, lines 349-352: the thread is constructed and
\* assigned to _health_check_thread
StartCreate(p) ==
    /\ pc[p] = "start"
    /\ health_check_thread' = NewThread
    /\ loops' = [loops EXCEPT ![NewThread] = "created"]
    /\ pc' = [pc EXCEPT ![p] = "starting"]
    /\ UNCHANGED <<now, poolVars, shutdown, lock, status, callVars, n_calls,
                   histVars>>

\* start_health_monitoring, line 353: self._health_check_thread.start(); a
\* thread that was started already raises RuntimeError and stays as it is
StartThread(p) ==
    /\ pc[p] = "starting"
    /\ loops' = [loops EXCEPT ![health_check_thread] =
                    IF @ = "created" THEN "check" ELSE @]
    /\ pc' = [pc EXCEPT ![p] = "idle"]
    /\ UNCHANGED <<now, poolVars, shutdown, health_check_thread, lock, status,
                   callVars, n_calls, histVars>>

\* stop_health_monitoring, line 358: the flag is set
StopFlag(p) ==
    /\ pc[p] = "idle"
    /\ n_calls[p] < MaxMonitorCalls
    /\ n_calls' = [n_calls EXCEPT ![p] = @ + 1]
    /\ shutdown' = TRUE
    /\ pc' = [pc EXCEPT ![p] = "stop"]
    /\ UNCHANGED <<now, poolVars, health_check_thread, loops, lock, status,
                   callVars, histVars>>

\* stop_health_monitoring, lines 359-360: join is called on a live thread
StopJoin(p) ==
    /\ pc[p] = "stop"
    /\ pc' = [pc EXCEPT ![p] =
                IF health_check_thread # NoThread /\ is_alive(health_check_thread)
                THEN "join" ELSE "idle"]
    /\ UNCHANGED <<now, poolVars, monitorVars, callVars, n_calls, histVars>>

\* join(timeout=5) returns: the thread has ended, or five seconds have passed
JoinReturns(p) ==
    /\ pc[p] = "join"
    /\ pc' = [pc EXCEPT ![p] = "idle"]
    /\ UNCHANGED <<now, poolVars, monitorVars, callVars, n_calls, histVars>>

\* mutant of loop_continues: the flag is not read
loop_continues_unstoppable(flag) == TRUE

\* `while not self._shutdown`
loop_continues(flag) == ~flag

\* _health_check_loop, line 365: the test of the while loop
LoopCheck(l) ==
    /\ loops[l] = "check"
    /\ loops' = [loops EXCEPT ![l] =
                    IF loop_continues(shutdown) THEN "scan" ELSE "ended"]
    /\ UNCHANGED <<now, poolVars, shutdown, health_check_thread, lock, status,
                   threadVars, histVars>>

\* _health_check_loop, line 367: _perform_health_checks(), under the lock
LoopScan(l) ==
    /\ loops[l] = "scan"
    /\ can_acquire(lock, l)
    /\ key' = perform_health_checks(key, keys, now)
    /\ owed' = OwedAfterStep(key', keys, now)
    /\ loops' = [loops EXCEPT ![l] = "sleep"]
    /\ UNCHANGED <<now, keys, key_id, key_site, rotation_strategy, circuit_breaker_threshold,
                   circuit_breaker_timeout, current_index, lru_order, shutdown,
                   health_check_thread, lock, status, threadVars, n_selects,
                   returned, all_eligible, last_reset, opened_reset, streak,
                   tally, owed_stable, prev_avail, stable_run>>

\* _health_check_loop, line 368: time.sleep(health_check_interval) ends
LoopWake(l) ==
    /\ loops[l] = "sleep"
    /\ loops' = [loops EXCEPT ![l] = "check"]
    /\ UNCHANGED <<now, poolVars, shutdown, health_check_thread, lock, status,
                   threadVars, histVars>>

\* a step of one thread of _health_check_loop
LoopStep(l) ==
    \/ LoopCheck(l)
    \/ LoopScan(l)
    \/ LoopWake(l)

\* get_pool_status, lines 323-325: the lock is taken, len(self.keys) is read
StatusEnter(p) ==
    /\ pc[p] = "idle"
    /\ n_calls[p] < MaxMonitorCalls
    /\ can_acquire(lock, p)
    /\ n_calls' = [n_calls EXCEPT ![p] = @ + 1]
    /\ lock' = acquire(lock, p)
    /\ pc' = [pc EXCEPT ![p] = "status"]
    /\ UNCHANGED <<now, poolVars, shutdown, health_check_thread, loops, status,
                   callVars, histVars>>

\* mutant of pool_status: the keys are counted by the health they had before
\* get_available_keys looked at them
pool_status_unhealed(kf, pool, t) ==
    [total_keys |-> Len(pool),
     available_keys |-> Len(Filter(pool, {id \in Range(pool) :
                                            kf[id].health \in {HEALTHY, TESTING}}))]

\* the dictionary get_pool_status builds
pool_status(kf, pool, t) ==
    [total_keys |-> Len(pool),
     available_keys |-> Len(get_available_keys(kf, pool, t))]

\* get_pool_status, lines 326-344: get_available_keys takes the lock again
\* and leaves it, the dictionary is built and returned, the lock is left
StatusReturn(p) ==
    /\ pc[p] = "status"
    /\ can_acquire(lock, p)
    /\ key' = HealAll(key, keys, now)
    /\ owed' = OwedAfterStep(key', keys, now)
    /\ status' = pool_status(key, keys, now)
    /\ lock' = release(release(acquire(lock, p)))
    /\ pc' = [pc EXCEPT ![p] = "idle"]
    /\ UNCHANGED <<now, keys, key_id, key_site, rotation_strategy, circuit_breaker_threshold,
                   circuit_breaker_timeout, current_index, lru_order, shutdown,
                   health_check_thread, loops, callVars, n_calls, n_selects,
                   returned, all_eligible, last_reset, opened_reset, streak,
                   tally, owed_stable, prev_avail, stable_run>>

\* the thread that asks for the pool's status
Observer == "t2"

\* the thread start_health_monitoring has started when the server is built
Monitor == "h1"

\* the outcomes of the operation while the lock is watched: it returns, the
\* key is rate-limited, or the server fails
LockOutcomes == {NoException, Error429, Error500}

\* DatadogMCPServer.__init__: a fresh pool whose health monitoring runs
InitLock ==
    /\ InitPool(PoolKeys, {LEAST_RECENTLY_USED})
    /\ InitThreads
    /\ shutdown = FALSE
    /\ health_check_thread = Monitor
    /\ loops = [l \in Loops |-> IF l = Monitor THEN "check" ELSE "unborn"]
    /\ lock = [owner |-> NoThread, depth |-> 0]
    /\ status = NoStatus
    /\ InitHistory

\* the steps of wrapper that are a `with self._lock:` block of the pool
LockedStep(p) ==
    /\ can_acquire(lock, p)
    /\ \/ GetKeys(p)
       \/ ChooseKey(p)
       \/ RecordSuccess(p)
       \/ RecordFailure(p)

\* the steps of wrapper outside the pool: func, time.sleep, the final raise
UnlockedStep(p) ==
    \/ \E out \in LockOutcomes : Invoke(p, out)
    \/ Backoff(p)
    \/ Exhausted(p)

\* a step of the thread that asks for the status
ObserverStep ==
    \/ StatusEnter(Observer)
    \/ StatusReturn(Observer)

\* one thread calls the wrapper, one asks for the status, the health loop runs
NextLock ==
    \/ \E retries \in 1..MaxRetries : StartCall(Caller, retries)
    \/ LockedStep(Caller)
    \/ UnlockedStep(Caller)
    \/ ObserverStep
    \/ LoopStep(Monitor)

SpecLock == InitLock /\ [][NextLock]_vars

\* the same threads while the clock runs: the loop scans key pairs whose last
\* error is of any age
NextScan ==
    \/ Tick
    \/ \E retries \in 1..MaxRetries : StartCall(Caller, retries)
    \/ LockedStep(Caller)
    \/ UnlockedStep(Caller)
    \/ ObserverStep
    \/ LoopStep(Monitor)

SpecScan == InitLock /\ [][NextScan]_vars

\* a pool of two key pairs, the first in any state of KeyPairStates, the
\* second fresh or used once, the round-robin cursor on either slot
InitStatus ==
    /\ now = 0
    /\ keys = <<1, 2>>
    /\ \E k \in KeyPairStates, l \in {KeyPair, record_success(KeyPair, 0)} :
          key = [id \in KeyIds |-> CASE id = 1 -> k [] id = 2 -> l [] OTHER -> KeyPair]
    /\ key_id = [id \in KeyIds |-> id]
    /\ key_site = [id \in KeyIds |-> DefaultSite]
    /\ rotation_strategy = LEAST_RECENTLY_USED
    /\ circuit_breaker_threshold = MaxThreshold
    /\ circuit_breaker_timeout = CIRCUIT_BREAKER_TIMEOUT
    /\ current_index \in 0..1
    /\ lru_order = <<2, 1>>
    /\ InitThreads
    /\ InitMonitor
    /\ InitHistory

\* get_pool_status is called at every clock value
NextStatus ==
    \/ Tick
    \/ StatusEnter(Observer)
    \/ StatusReturn(Observer)

SpecStatus == InitStatus /\ [][NextStatus]_vars

\* a step of thread p inside start_health_monitoring or stop_health_monitoring
MonitorCallStep(p) ==
    \/ StartCreate(p)
    \/ StartThread(p)
    \/ StopJoin(p)
    \/ JoinReturns(p)

\* a fresh pool; every thread of Threads starts and stops the health
\* monitoring, and the threads it has started run _health_check_loop
InitHealth ==
    /\ InitPool(PoolKeys, {LEAST_RECENTLY_USED})
    /\ InitThreads
    /\ InitMonitor
    /\ InitHistory

NextHealth ==
    \/ \E p \in Threads : StartCheck(p)
    \/ \E p \in Threads : StopFlag(p)
    \/ \E p \in Threads : MonitorCallStep(p)
    \/ \E l \in Loops : LoopStep(l)

SpecHealth == InitHealth /\ [][NextHealth]_vars

\* every thread keeps running: a started loop thread is scheduled, sleeps end,
\* and a caller inside start or stop goes on (join returns after 5 seconds)
SpecHealthFair ==
    /\ SpecHealth
    /\ \A l \in Loops : WF_vars(LoopStep(l))
    /\ \A p \in Threads : WF_vars(MonitorCallStep(p))

\* the first call of thread p is stop_health_monitoring
StopFirst(p) ==
    /\ n_calls[p] = 0
    /\ StopFlag(p)

\* the second call of thread p is start_health_monitoring
StartAgain(p) ==
    /\ n_calls[p] = 1
    /\ StartCheck(p)

\* the server's pool, its health monitoring running: one thread stops the
\* monitoring and then starts it again, while the status is asked for and
\* the clock runs
NextRestart ==
    \/ Tick
    \/ StopFirst(Caller)
    \/ StartAgain(Caller)
    \/ MonitorCallStep(Caller)
    \/ ObserverStep
    \/ \E l \in Loops : LoopStep(l)

SpecRestart == InitLock /\ [][NextRestart]_vars

\* every thread keeps running: loop threads are scheduled and their sleeps
\* end, and the caller inside start or stop goes on
SpecRestartFair ==
    /\ SpecRestart
    /\ \A l \in Loops : WF_vars(LoopStep(l))
    /\ WF_vars(MonitorCallStep(Caller))

(* ------------------------ add_key and remove_key ---------------------- *)

\* the ids add_key, remove_key and record_key_event are called with
AddedIds == 1..PoolKeys

\* next((k for k in self.keys if k.id == key_id), None)
RECURSIVE find_key(_, _, _)
find_key(pool, ids, id) ==
    IF pool = <<>> THEN None
    ELSE IF ids[Head(pool)] = id THEN Head(pool)
    ELSE find_key(Tail(pool), ids, id)

\* KeyPoolManager.add_key(k): the new keys and the new _lru_order
add_key(pool, lru, k, id) ==
    [keys |-> Append(pool, k), lru |-> Append(lru, id)]

\* mutant of remove_key: _lru_order is left as it is
remove_key_keeping_order(pool, lru, ids, id) ==
    [keys |-> Filter(pool, {k \in Range(pool) : ids[k] # id}),
     lru |-> lru]

\* KeyPoolManager.remove_key(id): the new keys and the new _lru_order
remove_key(pool, lru, ids, id) ==
    [keys |-> Filter(pool, {k \in Range(pool) : ids[k] # id}),
     lru |-> remove_first(lru, id)]

\* the KeyPair objects that have not been constructed yet
Unborn == {k \in KeyIds : key_id[k] = None}

\* add_key(KeyPair(id=id, ...)) with a newly constructed KeyPair
AddKey(id) ==
    /\ Unborn # {}
    /\ LET k == CHOOSE u \in Unborn : \A v \in Unborn : u <= v
           a == add_key(keys, lru_order, k, id)
       IN  /\ keys' = a.keys
           /\ lru_order' = a.lru
           /\ key_id' = [key_id EXCEPT ![k] = id]
           /\ key_site' = [key_site EXCEPT ![k] = DefaultSite]
           /\ key' = [key EXCEPT ![k] = KeyPair]
    /\ owed' = OwedAfterStep(key', keys', now)
    /\ UNCHANGED <<now, rotation_strategy, circuit_breaker_threshold,
                   circuit_breaker_timeout, current_index, monitorVars,
                   threadVars, n_selects, returned, all_eligible, last_reset,
                   opened_reset, streak, tally, owed_stable, prev_avail,
                   stable_run>>

\* remove_key(id)
RemoveKey(id) ==
    /\ LET r == remove_key(keys, lru_order, key_id, id)
       IN  /\ keys' = r.keys
           /\ lru_order' = r.lru
    /\ owed' = OwedAfterStep(key, keys', now)
    /\ UNCHANGED <<now, key, key_id, key_site, rotation_strategy, circuit_breaker_threshold,
                   circuit_breaker_timeout, current_index, monitorVars,
                   threadVars, n_selects, returned, all_eligible, last_reset,
                   opened_reset, streak, tally, owed_stable, prev_avail,
                   stable_run>>

\* the ids of the key pairs in the pool
PoolIds == {key_id[k] : k \in Range(keys)}

\* record_key_event(id, event_type) on the first key pair that has the id
RecordById(id, event_type) ==
    LET k == find_key(keys, key_id, id)
    IN  /\ k # None
        /\ key[k].total_requests < MaxUses
        /\ RecordKeyEvent(k, event_type, NoTime)

\* add_key with an id that no key pair of the pool has
AddNewKey(id) ==
    /\ id \notin PoolIds
    /\ AddKey(id)

\* KeyPoolManager(strategy): no key pair yet
InitPoolEmpty ==
    /\ now = 0
    /\ keys = <<>>
    /\ key = [id \in KeyIds |-> KeyPair]
    /\ key_id = [id \in KeyIds |-> None]
    /\ key_site = [id \in KeyIds |-> DefaultSite]
    /\ rotation_strategy \in RotationStrategy
    /\ circuit_breaker_threshold = MaxThreshold
    /\ circuit_breaker_timeout = CIRCUIT_BREAKER_TIMEOUT
    /\ current_index = 0
    /\ lru_order = <<>>
    /\ InitThreads
    /\ InitMonitor
    /\ InitHistory

\* keys are added under ids the pool does not hold, removed, used and selected
NextDistinct ==
    \/ \E id \in AddedIds : AddNewKey(id)
    \/ \E id \in AddedIds : RemoveKey(id)
    \/ \E id \in AddedIds : RecordById(id, "success")
    \/ Select

SpecDistinct == InitPoolEmpty /\ [][NextDistinct]_vars

\* keys are added under any id, removed, used and selected
NextPool ==
    \/ \E id \in AddedIds : AddKey(id)
    \/ \E id \in AddedIds : RemoveKey(id)
    \/ \E id \in AddedIds : RecordById(id, "success")
    \/ Select

SpecPool == InitPoolEmpty /\ [][NextPool]_vars

\* event types record_key_event has no branch for
UnknownEvents == {"timeout", "Success"}

\* record_key_event(id, event_type) with such an event type, on a key pair of
\* the pool
RecordUnknown(id, event_type) ==
    /\ id \in Range(keys)
    /\ tally[id].events < MaxEvents
    /\ RecordKeyEvent(id, event_type, NoTime)

\* one thread calls the wrapper with up to two attempts while key pairs are
\* removed from the pool and events of unknown types are recorded
NextStray ==
    \/ \E retries \in 1..2 : StartCall(Caller, retries)
    \/ GetKeys(Caller)
    \/ ChooseKey(Caller)
    \/ \E out \in RaceOutcomes : Invoke(Caller, out)
    \/ RecordSuccess(Caller)
    \/ RecordFailure(Caller)
    \/ Backoff(Caller)
    \/ Exhausted(Caller)
    \/ \E id \in AddedIds : RemoveKey(id)
    \/ \E id \in KeyIds, event_type \in UnknownEvents : RecordUnknown(id, event_type)

SpecStray == InitRace /\ [][NextStray]_vars

(* ----------------------- selection, key by key ------------------------ *)

\* the clock advances by one tick, up to LateTime
Advance ==
    /\ now < LateTime
    /\ now' = now + 1
    /\ owed' = OwedAfterStep(key, keys, now + 1)
    /\ UNCHANGED <<poolVars, monitorVars, threadVars, n_selects, returned,
                   all_eligible, last_reset, opened_reset, streak, tally, owed_stable,
                   prev_avail, stable_run>>

\* the key pairs a selection is made among at tick 1: a fresh one, one used
\* at tick 0 or at tick 1, one rate-limited at tick 0 until tick 0, and one
\* rate-limited at tick 1 for RATE_LIMIT_DEFAULT ticks
SelectStates ==
    {KeyPair,
     record_success(KeyPair, 0),
     record_success(KeyPair, 1),
     record_rate_limit(KeyPair, 0, 0),
     record_rate_limit(KeyPair, 1, NoTime)}

\* a pool of two such key pairs, added in either order
InitSelecting(strategies) ==
    /\ now = 1
    /\ keys \in {<<1, 2>>, <<2, 1>>}
    /\ \E k \in SelectStates, l \in SelectStates :
          key = [id \in KeyIds |-> CASE id = 1 -> k [] id = 2 -> l [] OTHER -> KeyPair]
    /\ key_id = [id \in KeyIds |-> id]
    /\ key_site = [id \in KeyIds |-> DefaultSite]
    /\ rotation_strategy \in strategies
    /\ circuit_breaker_threshold = MaxThreshold
    /\ circuit_breaker_timeout = CIRCUIT_BREAKER_TIMEOUT
    /\ current_index = 0
    /\ lru_order = keys
    /\ InitThreads
    /\ InitMonitor
    /\ InitHistory

\* a key pair that has not been used is rate-limited
RateLimitUnused(id) ==
    /\ id \in Range(keys)
    /\ key[id].total_requests < MaxUses
    /\ RecordKeyEvent(id, "rate_limit", NoTime)

InitSelect == InitSelecting(RotationStrategy)

\* selections are made under every strategy while keys become rate-limited
NextSelect ==
    \/ Select
    \/ \E id \in KeyIds : RateLimitUnused(id)

SpecSelect == InitSelect /\ [][NextSelect]_vars

InitAdaptive == InitSelecting({ADAPTIVE})

\* adaptive selections are made at every clock value up to LateTime
NextAdaptive ==
    \/ Advance
    \/ Select

SpecAdaptive == InitAdaptive /\ [][NextAdaptive]_vars

\* the base weights of the key pairs a weighted selection is made among, in
\* hundredths: the default 1.0, and 0
BaseWeights == {0, 100}

\* a pool of two key pairs with such weights under the weighted strategy
InitWeighted ==
    /\ now = 1
    /\ keys \in {<<1, 2>>, <<2, 1>>}
    /\ \E k \in SelectStates, l \in SelectStates, w \in [1..2 -> BaseWeights] :
          key = [id \in KeyIds |-> CASE id = 1 -> [k EXCEPT !.weight = w[1]]
                                     [] id = 2 -> [l EXCEPT !.weight = w[2]]
                                     [] OTHER -> KeyPair]
    /\ key_id = [id \in KeyIds |-> id]
    /\ key_site = [id \in KeyIds |-> DefaultSite]
    /\ rotation_strategy = WEIGHTED
    /\ circuit_breaker_threshold = MaxThreshold
    /\ circuit_breaker_timeout = CIRCUIT_BREAKER_TIMEOUT
    /\ current_index = 0
    /\ lru_order = keys
    /\ InitThreads
    /\ InitMonitor
    /\ InitHistory

\* weighted selections are made while keys become rate-limited
NextWeighted ==
    \/ Select
    \/ \E id \in KeyIds : RateLimitUnused(id)

SpecWeighted == InitWeighted /\ [][NextWeighted]_vars

(* --------------------- load_keys_from_environment --------------------- *)

\* the values of a site variable or of a "site" member: a site, or the empty
\* string (for a variable: unset or empty)
Sites == {"datadoghq.com", ""}

\* a JSON object is the sequence of its members, <<name, value>> each
RECURSIVE get(_, _, _)
get(d, name, default) ==
    IF d = <<>> THEN default
    ELSE IF Head(d)[1] = name THEN Head(d)[2]
    ELSE get(Tail(d), name, default)

\* the objects of DD_API_KEYS_JSON: with a "site" member or without one
JsonEntries ==
    {<<<<"api_key", "a">>, <<"app_key", "b">>>>}
        \cup {<<<<"api_key", "a">>, <<"app_key", "b">>, <<"site", site>>>> : site \in Sites}

\* the arrays of at most MaxKeys such objects
JsonArrays == UNION {[1..n -> JsonEntries] : n \in 0..MaxKeys}

\* the environment: primary is <<>> or holds DD_SITE when DD_API_KEY and
\* DD_APP_KEY are set; numbered holds DD_SITE_2, DD_SITE_3, ... of the key
\* pairs numbered from 2 without a gap; json is DD_API_KEYS_JSON: unset or
\* empty, not JSON, or an array
Environments ==
    [primary : {<<>>} \cup {<<site>> : site \in Sites},
     numbered : {<<>>} \cup {<<site>> : site \in Sites},
     json : [kind : {"unset", "malformed"}, entries : {<<>>}]
                \cup [kind : {"array"}, entries : JsonArrays]]

\* os.getenv(...) or "us3.datadoghq.com"
or_default(site) == IF site = "" THEN DefaultSite ELSE site

\* ValueError("At least one valid API key pair is required")
NoKeyPairs ==
    <<"A", "t", " ", "l", "e", "a", "s", "t", " ", "o", "n", "e", " ", "v",
      "a", "l", "i", "d", " ", "A", "P", "I", " ", "k", "e", "y", " ", "p",
      "a", "i", "r", " ", "i", "s", " ", "r", "e", "q", "u", "i", "r", "e",
      "d">>

\* mutant of load_keys_from_environment: the site of a JSON object is read
\* as the site variables are, an empty one giving the default
load_keys_from_environment_or_default(env) ==
    LET primary == [i \in 1..Len(env.primary) |->
                       [id |-> <<"primary", 0>>, site |-> or_default(env.primary[i])]]
        numbered == [i \in 1..Len(env.numbered) |->
                        [id |-> <<"key", i + 1>>, site |-> or_default(env.numbered[i])]]
        from_json == IF primary \o numbered = <<>> /\ env.json.kind = "array"
                     THEN [i \in 1..Len(env.json.entries) |->
                              [id |-> <<"json_key", i>>,
                               site |-> or_default(get(env.json.entries[i], "site",
                                                       DefaultSite))]]
                     ELSE <<>>
        all == primary \o numbered \o from_json
    IN  [keys |-> all, error |-> IF all = <<>> THEN NoKeyPairs ELSE NoException]

\* load_keys_from_environment(): the id and the site of the key pairs it
\* returns, or the error it raises; the id f"key_{i}" is <<"key", i>>
load_keys_from_environment(env) ==
    LET primary == [i \in 1..Len(env.primary) |->
                       [id |-> <<"primary", 0>>, site |-> or_default(env.primary[i])]]
        numbered == [i \in 1..Len(env.numbered) |->
                        [id |-> <<"key", i + 1>>, site |-> or_default(env.numbered[i])]]
        from_json == IF primary \o numbered = <<>> /\ env.json.kind = "array"
                     THEN [i \in 1..Len(env.json.entries) |->
                              [id |-> <<"json_key", i>>,
                               site |-> get(env.json.entries[i], "site", DefaultSite)]]
                     ELSE <<>>
        all == primary \o numbered \o from_json
    IN  [keys |-> all, error |-> IF all = <<>> THEN NoKeyPairs ELSE NoException]

\* get_datadog_credentials(): the key pairs load_keys_from_environment
\* returns are added to a new pool; raised is the error it raises instead
Load(env) ==
    /\ keys = <<>>
    /\ raised[Caller] = NoException
    /\ LET r == load_keys_from_environment(env)
           n == Len(r.keys)
       IN  /\ keys' = [i \in 1..n |-> i]
           /\ key' = [k \in KeyIds |-> KeyPair]
           /\ key_id' = [k \in KeyIds |-> IF k <= n THEN r.keys[k].id ELSE key_id[k]]
           /\ key_site' = [k \in KeyIds |-> IF k <= n THEN r.keys[k].site
                                            ELSE key_site[k]]
           /\ lru_order' = [i \in 1..n |-> r.keys[i].id]
           /\ raised' = [raised EXCEPT ![Caller] = r.error]
    /\ UNCHANGED <<now, rotation_strategy, circuit_breaker_threshold,
                   circuit_breaker_timeout, current_index, monitorVars, pc,
                   max_retries, attempt, available_keys, key_pair,
                   last_exception, result, hist, recs, slept, selects, no_key, n_calls,
                   histVars>>

\* the pool is built from the environment and then used
NextLoad ==
    \/ \E env \in Environments : Load(env)
    \/ Select
    \/ \E id \in KeyIds : RateLimitUnused(id)

SpecLoad == InitPoolEmpty /\ [][NextLoad]_vars

(* ----------------- rate-limit and circuit quarantine ------------------ *)

\* C1: once a rate limit has been recorded for a key with reset time R, the key
\* is not among the available keys at any clock value up to the latest R
\* recorded for it, whatever else is recorded meanwhile.
C1_RateLimitedUntilReset ==
    \A id \in Range(keys) :
        (last_reset[id] # NoTime /\ now <= last_reset[id])
            => ~is_available(key[id], now)

\* C2: the "error" event that completes circuit_breaker_threshold errors with
\* no success in between leaves the key in ERROR with
\* circuit_breaker_reset_time = now + circuit_breaker_timeout; a key in ERROR
\* keeps that state and reset time while the clock has not passed the reset
\* time and no rate limit is recorded on it; and a key in ERROR whose reset
\* time has not passed is not among the available keys.
C2_Step ==
    \A id \in Range(keys) :
        /\ (key'[id].error_requests # key[id].error_requests
            /\ streak'[id] >= circuit_breaker_threshold)
              => /\ key'[id].health = ERROR
                 /\ key'[id].circuit_breaker_reset_time = now + circuit_breaker_timeout
        /\ (key[id].health = ERROR /\ now' <= key[id].circuit_breaker_reset_time
            /\ key'[id].rate_limited_requests = key[id].rate_limited_requests)
              => /\ key'[id].health = ERROR
                 /\ key'[id].circuit_breaker_reset_time
                        >= key[id].circuit_breaker_reset_time
        /\ (key'[id].health = ERROR /\ now' <= key'[id].circuit_breaker_reset_time)
              => ~is_available(key'[id], now')

C3_CircuitOpenUntilReset ==
    \A id \in Range(keys) :
        (opened_reset[id] # NoTime /\ now <= opened_reset[id])
            => ~is_available(key[id], now)

(* ---------------------------- round-robin ----------------------------- *)

\* C6: under round-robin, while every selection finds all N keys of the pool
\* eligible, the i-th selection since the pool was built returns the key at
\* position ((i - 1) mod N) + 1 of the insertion order: each key once in N
\* selections, in insertion order, repeating with period N.
C6_RoundRobinInOrder ==
    (rotation_strategy = ROUND_ROBIN /\ all_eligible /\ n_selects >= 1)
        => returned = keys[((n_selects - 1) % Len(keys)) + 1]

\* three keys, all eligible at each of four selections: the fourth wraps around
C6_Witness ==
    /\ rotation_strategy = ROUND_ROBIN
    /\ Len(keys) = 3
    /\ all_eligible
    /\ n_selects = 4
    /\ returned = keys[1]

\* C7 as claimed: under round-robin no key is returned again while a key that
\* has been eligible ever since the returned key's previous selection has not
\* been returned in between.
C7_NoRepeatBeforeOthers ==
    [][(n_selects' = n_selects + 1 /\ returned' # None)
          => owed[returned'] = {}]_vars

\* C7 amended: under round-robin no key is returned again while another key of
\* the eligible list has not been returned in between, provided every selection
\* from the key's previous one on found the same eligible list.
C7_NoRepeatWhileListStable ==
    [][(n_selects' = n_selects + 1 /\ returned' # None
        /\ get_available_keys(key, keys, now) = prev_avail)
          => owed_stable[returned'] = {}]_vars

\* three selections in a row over the same two eligible keys of a three-key
\* pool: the first of them is returned again after the other one
C7_Witness ==
    /\ rotation_strategy = ROUND_ROBIN
    /\ Len(keys) = 3
    /\ Len(prev_avail) = 2
    /\ stable_run >= 3
    /\ owed_stable[returned] = Range(prev_avail) \ {returned}

(* ------------------------ the retry wrapper --------------------------- *)

\* the texts that hold "401" or "403"
AuthCodedTexts ==
    {text \in ErrorTexts \cup {NoAvailableKeys} :
        \E code \in {CODE_401, CODE_403} : Contains(text, code)}

\* the claims' reading of an error text: it holds "401" or "403"
AuthCoded(text) == text \in AuthCodedTexts

\* the texts that hold a rate-limit indicator, in any letter case
RateLimitWordedTexts ==
    {text \in ErrorTexts \cup {NoAvailableKeys} :
        \E word \in {RATE_LIMIT, CODE_429, TOO_MANY_REQUESTS, QUOTA_EXCEEDED, THROTTLED} :
            Contains(Lower(text), word)}

\* the claims' reading of an error text: it holds a rate-limit indicator,
\* in any letter case
RateLimitWorded(text) == text \in RateLimitWordedTexts

\* invocation i of thread p's call was handled as an authentication failure:
\* it is the last one, no selection followed it, and once the call is over
\* an "error" event is recorded on its key and its exception is what is raised
AuthHandled(p, i) ==
    /\ i = Len(hist[p])
    /\ selects[p] = i
    /\ pc[p] \in {"record", "done"}
    /\ pc[p] = "done" =>
          /\ raised[p] = hist[p][i].out
          /\ result[p] = None
          /\ Len(recs[p]) = i
          /\ recs[p][i] = [key |-> hist[p][i].key, event |-> "error"]

\* C4: a call whose operation fails with "401 Unauthorized" invokes it once,
\* makes one selection, records one error event on the key used and raises
\* that failure, whatever max_retries is.
C4_Unauthorized401Once ==
    \A p \in Threads :
        (hist[p] # <<>> /\ hist[p][1].out = Error401)
            => /\ AuthHandled(p, 1)
               /\ pc[p] = "done" => recs[p] = <<[key |-> hist[p][1].key,
                                                 event |-> "error"]>>

\* a call with the largest max_retries ended by the 401 of its first invocation
C4_Witness ==
    /\ pc[Caller] = "done"
    /\ max_retries[Caller] = MaxRetries
    /\ MaxRetries > 1
    /\ Len(hist[Caller]) = 1
    /\ hist[Caller][1].out = Error401
    /\ raised[Caller] = Error401

\* the call of thread p found the pool as it was built: every event recorded
\* on the pool was recorded by this call
FreshStart(p) == TotalRequests(key, keys) = Len(recs[p])

\* every invocation so far behaved as the operation of C5: a rate-limit
\* failure on the first key, a success on the second
RateLimitedOnFirstKey(p) ==
    \A i \in 1..Len(hist[p]) :
        /\ hist[p][i].key = keys[1] =>
              (hist[p][i].out # NoException /\ RateLimitWorded(hist[p][i].out))
        /\ hist[p][i].key = keys[2] => hist[p][i].out = NoException

C5_Scenario(p) ==
    /\ pc[p] = "done"
    /\ Len(keys) = 2
    /\ FreshStart(p)
    /\ max_retries[p] >= 2
    /\ RateLimitedOnFirstKey(p)

C5_TwoInvocations(p) ==
    /\ result[p] = keys[2]
    /\ raised[p] = NoException
    /\ Len(hist[p]) = 2
    /\ hist[p][1].key = keys[1]
    /\ hist[p][2].key = keys[2]

\* C5 as claimed: on a fresh pool {A, B} with max_retries >= 2, the operation
\* that is rate-limited on A and succeeds on B is invoked exactly twice, on A
\* then on B, and B's result is returned, under every strategy.
C5_RotatesToSecondKey ==
    \A p \in Threads : C5_Scenario(p) => C5_TwoInvocations(p)

\* C5 amended: under round-robin, least-recently-used and adaptive selection
\* the call makes exactly those two invocations; under weighted and random
\* selection it returns B's result after one invocation (B) or two (A, then B).
C5_RotatesToSecondKeyByStrategy ==
    \A p \in Threads :
        C5_Scenario(p) =>
            /\ result[p] = keys[2]
            /\ raised[p] = NoException
            /\ IF rotation_strategy \in {ROUND_ROBIN, LEAST_RECENTLY_USED, ADAPTIVE}
               THEN C5_TwoInvocations(p)
               ELSE \/ C5_TwoInvocations(p)
                    \/ (Len(hist[p]) = 1 /\ hist[p][1].key = keys[2])

\* the test's run: the default strategy, A is answered 429, B succeeds
C5_Witness ==
    /\ C5_Scenario(Caller)
    /\ rotation_strategy = ADAPTIVE
    /\ max_retries[Caller] = 3
    /\ Len(hist[Caller]) = 2
    /\ hist[Caller][1] = [key |-> 1, out |-> Error429, n |-> 2]
    /\ hist[Caller][2] = [key |-> 2, out |-> NoException, n |-> 1]
    /\ result[Caller] = 2

\* C8 as claimed: every failure whose text holds "401" or "403" is handled as
\* an authentication failure, also when the text holds a rate-limit indicator.
C8_AuthCodeAlwaysFatal ==
    \A p \in Threads : \A i \in 1..Len(hist[p]) :
        AuthCoded(hist[p][i].out) => AuthHandled(p, i)

\* C8 amended: a failure whose text holds "401" or "403" and no rate-limit
\* indicator is handled as an authentication failure; one whose text also
\* holds a rate-limit indicator is recorded as a rate limit.
C8_AuthCodeFatalUnlessRateLimited ==
    \A p \in Threads : \A i \in 1..Len(hist[p]) :
        AuthCoded(hist[p][i].out) =>
            IF RateLimitWorded(hist[p][i].out)
            THEN Len(recs[p]) >= i =>
                    recs[p][i] = [key |-> hist[p][i].key, event |-> "rate_limit"]
            ELSE AuthHandled(p, i)

\* a "403 Forbidden" on the second attempt ends a call that could go on
C8_Witness ==
    /\ pc[Caller] = "done"
    /\ max_retries[Caller] = 3
    /\ Len(hist[Caller]) = 2
    /\ hist[Caller][2].out = Error403
    /\ raised[Caller] = Error403

\* C9: under round-robin, least-recently-used and adaptive selection, an
\* attempt that follows a failed attempt of the same call runs on another key
\* than the one that just failed, when its selection had two or more eligible
\* keys to choose from.
C9_RetryOnAnotherKey ==
    \A p \in Threads : \A i \in 2..Len(hist[p]) :
        (rotation_strategy \in {ROUND_ROBIN, LEAST_RECENTLY_USED, ADAPTIVE}
         /\ hist[p][i].n >= 2)
            => hist[p][i].key # hist[p][i - 1].key

\* C10 as claimed: a call that ends by raising a rate-limit failure has
\* invoked the operation max_retries times.
C10_RateLimitRaisedWhenExhausted ==
    \A p \in Threads :
        (pc[p] = "done" /\ raised[p] # NoException /\ RateLimitWorded(raised[p]))
            => Len(hist[p]) = max_retries[p]

\* C10 amended: a call that ends by raising a rate-limit failure has invoked
\* the operation max_retries times, or the selection of its next attempt found
\* no eligible key; either way the failure raised is that of its last invocation.
C10_RateLimitRaisedWhenExhaustedOrNoKey ==
    \A p \in Threads :
        (pc[p] = "done" /\ raised[p] # NoException /\ RateLimitWorded(raised[p]))
            => /\ Len(hist[p]) = max_retries[p] \/ no_key[p]
               /\ hist[p] # <<>>
               /\ raised[p] = hist[p][Len(hist[p])].out

\* both keys answered 429 in a call with max_retries = 2
C10_Witness ==
    /\ pc[Caller] = "done"
    /\ max_retries[Caller] = 2
    /\ Len(hist[Caller]) = 2
    /\ ~no_key[Caller]
    /\ raised[Caller] = Error429

\* the call of thread p is over and returned normally
ReturnedNormally(p) == pc[p] = "done" /\ raised[p] = NoException

\* C11: execute never swallows a failure: whatever max_retries (0 included)
\* and whatever the pool, a call that returns normally made an invocation that
\* succeeded, that invocation is its last one and the only successful one, no
\* selection followed it, and its result is what the call returns.
C11_NeverSwallowsFailure ==
    \A p \in Threads :
        ReturnedNormally(p) =>
            /\ hist[p] # <<>>
            /\ hist[p][Len(hist[p])].out = NoException
            /\ \A i \in 1..(Len(hist[p]) - 1) : hist[p][i].out # NoException
            /\ selects[p] = Len(hist[p])
            /\ result[p] = hist[p][Len(hist[p])].key

\* C12: an attempt of execute whose selection finds no eligible key ends the
\* call by raising: no invocation, no further selection, no backoff and no
\* change of any key follow, and on the first attempt the error raised is
\* "No available API keys".
C12_Step ==
    \A p \in Threads :
        /\ (~no_key[p] /\ no_key'[p]) =>
              /\ pc'[p] = "done"
              /\ raised'[p] # NoException
              /\ attempt[p] = 0 => raised'[p] = NoAvailableKeys
              /\ attempt[p] > 0 => raised'[p] = last_exception[p]
              /\ selects'[p] = selects[p] + 1
              /\ hist'[p] = hist[p]
              /\ recs'[p] = recs[p]
              /\ key' = key
        /\ (no_key[p] /\ no_key'[p]) =>
              /\ pc'[p] = "done"
              /\ selects'[p] = selects[p]
              /\ hist'[p] = hist[p]
              /\ recs'[p] = recs[p]
              /\ raised'[p] = raised[p]

C12_EmptySelectionRaises == [][C12_Step]_vars

\* the first selection of a call found both keys rate-limited
C12_Witness ==
    /\ no_key[Caller]
    /\ max_retries[Caller] = MaxRetries
    /\ hist[Caller] = <<>>
    /\ selects[Caller] = 1
    /\ raised[Caller] = NoAvailableKeys

\* C13: every call of execute terminates and invokes the operation at most
\* max_retries times, whatever failures the operation produces and whatever
\* the state of the pool; a rate-limited attempt counts like any other.
C13_TerminatesWithinMaxRetries ==
    /\ [](\A p \in Threads : Len(hist[p]) <= max_retries[p])
    /\ \A p \in Threads : (pc[p] \notin {"idle", "done"}) ~> (pc[p] = "done")

\* a call that used its three attempts, the first of them rate-limited
C13_Witness ==
    /\ pc[Caller] = "done"
    /\ max_retries[Caller] = 3
    /\ Len(hist[Caller]) = 3
    /\ hist[Caller][1].out = Error429
    /\ hist[Caller][2].out = Error500

(* --------------------------- key statistics --------------------------- *)

\* C14: over every sequence of recorded events the counters of a key never
\* decrease, each recorded event adds exactly one to total_requests, so that
\* total = successes + rate-limit hits + errors, and consecutive_failures
\* decreases only when a success resets it to zero.
C14_Step ==
    \A id \in KeyIds :
        LET a == key[id]
            b == key'[id]
        IN  /\ b.total_requests >= a.total_requests
            /\ b.successful_requests >= a.successful_requests
            /\ b.rate_limited_requests >= a.rate_limited_requests
            /\ b.error_requests >= a.error_requests
            /\ b.total_requests - a.total_requests
                  = tally'[id].events - tally[id].events
            /\ b.consecutive_failures < a.consecutive_failures =>
                  /\ b.consecutive_failures = 0
                  /\ b.successful_requests = a.successful_requests + 1

C14_CountersMonotone ==
    /\ [](\A id \in KeyIds :
            key[id].total_requests = key[id].successful_requests
                                     + key[id].rate_limited_requests
                                     + key[id].error_requests)
    /\ [][C14_Step]_vars

\* an error, a rate limit and then a success were recorded on the first key
C14_Witness ==
    /\ key[1].error_requests = 1
    /\ key[1].rate_limited_requests = 1
    /\ key[1].successful_requests = 1
    /\ key[1].consecutive_failures = 0
    /\ key[1].last_used > key[1].last_rate_limit
    /\ key[1].last_rate_limit > key[1].last_error

\* two fractions are the same number
SameFraction(x, y) == x.num * y.den = y.num * x.den

\* C15: after every sequence of recorded events, success_rate() is successes /
\* total events (0 when there is none) and consecutive_failures is the number
\* of error events since the last success, rate limits neither adding to it
\* nor resetting it.
C15_SuccessRateAndFailureStreak ==
    \A id \in KeyIds :
        /\ SameFraction(get_success_rate(key[id]),
                        IF tally[id].events = 0 THEN [num |-> 0, den |-> 1]
                        ELSE [num |-> tally[id].successes, den |-> tally[id].events])
        /\ key[id].consecutive_failures = streak[id]

\* two successes followed by one error: the rate is 2/3, the streak 1
C15_Witness ==
    /\ tally[1] = [events |-> 3, successes |-> 2]
    /\ streak[1] = 1
    /\ key[1].rate_limited_requests = 0
    /\ SameFraction(get_success_rate(key[1]), [num |-> 2, den |-> 3])
    /\ key[1].consecutive_failures = 1

(* ------------------------- health of a key ---------------------------- *)

\* C16 as claimed: a key starts in TESTING and eligible, and it is moved from
\* TESTING to HEALTHY only by the recording of a success; no selection, status
\* call or health scan promotes it.
C16_PromotedStep ==
    \A id \in Range(keys) :
        (key[id].health = TESTING /\ key'[id].health = HEALTHY)
            => tally'[id].successes = tally[id].successes + 1

C16_ProbationUntilSuccess ==
    /\ \A id \in Range(keys) : key[id].health = TESTING /\ is_available(key[id], now)
    /\ [][C16_PromotedStep]_vars

\* C16 amended: a key starts in TESTING and eligible, and it is moved from
\* TESTING to HEALTHY only by the recording of a success or by a health scan,
\* which promotes it when its last error is absent or more than five minutes
\* old and changes nothing else; a selection never promotes it.
C16_PromotedOrScannedStep ==
    \A id \in Range(keys) :
        (key[id].health = TESTING /\ key'[id].health = HEALTHY)
            => \/ tally'[id].successes = tally[id].successes + 1
               \/ /\ key[id].last_error = NoTime
                     \/ now - key[id].last_error > HEALTH_GRACE
                  /\ key'[id] = [key[id] EXCEPT !.health = HEALTHY]
                  /\ tally' = tally
                  /\ <<returned, current_index, lru_order>>'
                        = <<returned, current_index, lru_order>>

C16_ProbationUntilSuccessOrScan ==
    /\ \A id \in Range(keys) : key[id].health = TESTING /\ is_available(key[id], now)
    /\ [][C16_PromotedOrScannedStep]_vars

\* a key on which nothing was recorded is HEALTHY: a health scan promoted it
C16_Witness ==
    \E id \in Range(keys) :
        /\ key[id].health = HEALTHY
        /\ tally[id].events = 0

\* the reset time r has passed at time t
Elapsed(r, t) == r # NoTime /\ t > r

\* C17: is_available follows the table: a key in ERROR whose circuit reset
\* time has passed becomes TESTING and is available; a key in RATE_LIMITED
\* whose rate-limit reset time has passed becomes HEALTHY and is available; in
\* every other case, the clock at the reset time included, the key is
\* unchanged and is available exactly when it is HEALTHY or TESTING.
C17_Table(k, t) ==
    CASE k.health = ERROR /\ Elapsed(k.circuit_breaker_reset_time, t) ->
             /\ Heal(k, t).health = TESTING
             /\ is_available(k, t)
      [] k.health = RATE_LIMITED /\ Elapsed(k.rate_limit_reset_time, t) ->
             /\ Heal(k, t).health = HEALTHY
             /\ is_available(k, t)
      [] OTHER ->
             /\ Heal(k, t) = k
             /\ is_available(k, t) <=> k.health \in {HEALTHY, TESTING}

C17_IsAvailableTable ==
    \A id \in Range(keys) : C17_Table(key[id], now)

\* a key in ERROR and one in RATE_LIMITED, each seen at its reset time exactly
C17_Witness ==
    /\ key[1].health \in {ERROR, RATE_LIMITED}
    /\ key[1].circuit_breaker_reset_time = now
    /\ key[1].rate_limit_reset_time = now
    /\ now > 0

\* C18: the auto-heal of is_available is idempotent: a second evaluation at
\* the same clock value gives the same result and leaves the key as the first
\* evaluation left it.
C18_HealIdempotent ==
    \A id \in Range(keys) :
        LET once == Heal(key[id], now)
        IN  /\ Heal(once, now) = once
            /\ is_available(once, now) <=> is_available(key[id], now)

\* a rate-limited key whose reset time has passed: the first evaluation heals it
C18_Witness ==
    /\ key[1].health = RATE_LIMITED
    /\ Elapsed(key[1].rate_limit_reset_time, now)
    /\ Elapsed(key[1].circuit_breaker_reset_time, now)
    /\ Heal(key[1], now).health = HEALTHY

(* ------------------------ concurrent callers -------------------------- *)

\* C19: get_key_by_strategy is one critical section: between the computation
\* of a thread's eligible list and its choice no other thread changes the
\* pool, so the key chosen is in the pool and eligible when it is chosen.
C19_Step ==
    \A p \in Threads :
        /\ (pc[p] = "choose" /\ pc'[p] = "choose") => (keys' = keys /\ key' = key)
        /\ (pc[p] = "choose" /\ pc'[p] = "call") =>
              /\ key_pair'[p] \in Range(keys)
              /\ is_available(key[key_pair'[p]], now)

C19_SelectIsAtomic == [][C19_Step]_vars

\* nothing was recorded on the pool: every selection found the same eligible list
NothingRecorded == \A id \in KeyIds : tally[id].events = 0

\* thread p has made the first selection of its call and holds the key chosen
HoldsFirstChoice(p) == selects[p] = 1 /\ pc[p] \in {"call", "record"}

\* C20: under round-robin, with the same N >= 2 eligible keys throughout, two
\* selections made by concurrent calls never take the same cursor slot: they
\* return distinct keys.
C20_ConcurrentSelectionsDistinct ==
    \A p, q \in Threads :
        (/\ p # q
         /\ rotation_strategy = ROUND_ROBIN
         /\ Len(keys) >= 2
         /\ NothingRecorded
         /\ HoldsFirstChoice(p)
         /\ HoldsFirstChoice(q))
            => key_pair[p] # key_pair[q]

\* both threads are about to invoke the operation, each with its own key
C20_Witness ==
    /\ rotation_strategy = ROUND_ROBIN
    /\ NothingRecorded
    /\ pc["t1"] = "call" /\ pc["t2"] = "call"
    /\ key_pair["t1"] = 2
    /\ key_pair["t2"] = 1

(* ------------------------------ the lock ------------------------------ *)

\* the step thread x takes next, when x is inside a call or a loop
StepOf(x) ==
    CASE x = Caller -> LockedStep(Caller) \/ UnlockedStep(Caller)
      [] x = Observer -> StatusReturn(Observer)
      [] OTHER -> LoopStep(x)

\* the threads that are inside wrapper, get_pool_status or _health_check_loop
Inside ==
    {p \in {Caller} : pc[p] \notin {"idle", "done"}}
        \cup {p \in {Observer} : pc[p] = "status"}
        \cup {l \in Loops : is_alive(l)}

\* C21: the pool's lock is not held by a thread that is inside func or inside
\* the back-off sleep; and no thread inside wrapper, get_pool_status or the
\* health loop is ever stuck: it can take its next step, or it waits for the
\* lock and the lock's owner, which is then not inside func or a sleep, can
\* take its next step.
C21_LockNotHeldAcrossCalls ==
    /\ \A p \in Threads : pc[p] \in {"call", "sleep"} => lock.owner # p
    /\ \A x \in Inside :
          \/ ENABLED StepOf(x)
          \/ /\ lock.owner \notin {NoThread, x}
             /\ lock.owner \in Inside
             /\ lock.owner = Caller => pc[Caller] \notin {"call", "sleep"}
             /\ ENABLED StepOf(lock.owner)

\* a status has been returned and the health loop has scanned while the
\* calling thread is inside func
C21_Witness ==
    /\ pc[Caller] = "call"
    /\ status # NoStatus
    /\ loops[Monitor] = "sleep"
    /\ lock.owner = NoThread

\* get_pool_status holds the lock while the calling thread waits for it
C21_WitnessWaiting ==
    /\ pc[Caller] = "loop"
    /\ pc[Observer] = "status"
    /\ lock.owner = Observer

(* ---------------------------- pool status ----------------------------- *)

\* k2 is k, or k after the one auto-heal that is due at time t
AutoHealed(k, k2, t) ==
    \/ k2 = k
    \/ /\ k.health = RATE_LIMITED
       /\ Elapsed(k.rate_limit_reset_time, t)
       /\ k2 = [k EXCEPT !.health = HEALTHY, !.rate_limit_reset_time = NoTime]
    \/ /\ k.health = ERROR
       /\ Elapsed(k.circuit_breaker_reset_time, t)
       /\ k2 = [k EXCEPT !.health = TESTING, !.circuit_breaker_reset_time = NoTime]

\* k can be selected at time t
EligibleAt(k, t) ==
    \/ k.health \in {HEALTHY, TESTING}
    \/ k.health = RATE_LIMITED /\ Elapsed(k.rate_limit_reset_time, t)
    \/ k.health = ERROR /\ Elapsed(k.circuit_breaker_reset_time, t)

\* the counters and time stamps of a key pair
Counters(k) ==
    <<k.total_requests, k.successful_requests, k.rate_limited_requests,
      k.error_requests, k.consecutive_failures, k.last_used, k.last_rate_limit,
      k.last_error, k.weight>>

C22_Step ==
    \A p \in Threads :
        /\ (pc[p] \in {"idle", "status"} /\ pc'[p] \in {"idle", "status"}
               /\ pc'[p] # pc[p])
              => /\ <<keys, key_id, key_site, current_index, lru_order>>'
                       = <<keys, key_id, key_site, current_index, lru_order>>
                 /\ \A id \in KeyIds :
                       /\ Counters(key'[id]) = Counters(key[id])
                       /\ AutoHealed(key[id], key'[id], now)
        /\ (pc[p] = "status" /\ pc'[p] = "idle")
              => /\ status'.total_keys = Len(keys)
                 /\ status'.available_keys
                       = Cardinality({i \in 1..Len(keys) : EligibleAt(key[keys[i]], now)})
                 /\ status'.available_keys <= status'.total_keys

\* C22: get_pool_status leaves the list of keys, every counter, the
\* round-robin cursor and the LRU order as they are and changes a health or a
\* reset time only by the auto-heal that is due; what it returns has
\* total_keys = the number of keys in the pool, available_keys = the number of
\* keys eligible at the clock value of the call, and available_keys <=
\* total_keys.
C22_StatusReadOnly == [][C22_Step]_vars

\* a status was returned after the clock moved, with a key left out
C22_Witness ==
    /\ status # NoStatus
    /\ status.available_keys < status.total_keys
    /\ now > 0
    /\ pc[Observer] = "idle"
    /\ n_calls[Observer] = 2

(* ------------------------- health monitoring -------------------------- *)

\* the threads that are running _health_check_loop
Running == {l \in Loops : is_alive(l)}

\* C23: whatever start_health_monitoring calls have been made, one after the
\* other or at the same time from several threads, at most one thread runs
\* _health_check_loop.
C23_AtMostOneLoop == Cardinality(Running) <= 1

\* stop_health_monitoring is called: its first statement is executed
StopCalled(p) == pc[p] = "idle" /\ pc'[p] = "stop"

C24_Step ==
    /\ shutdown => \A l \in Loops : loops'[l] = "scan" => loops[l] = "scan"
    /\ \A p \in Threads :
          StopCalled(p) =>
              /\ shutdown'
              /\ UNCHANGED <<now, poolVars, health_check_thread, loops, lock, status>>
              /\ shutdown => UNCHANGED monitorVars

ListsOnce(s, S) ==
    /\ Range(s) = S
    /\ \A i, j \in 1..Len(s) : s[i] = s[j] => i = j

C25_Step ==
    /\ \A id \in AddedIds :
          (keys' = remove_key(keys, lru_order, key_id, id).keys
             /\ lru_order' = remove_key(keys, lru_order, key_id, id).lru
             /\ key' = key /\ returned' = returned)
              => /\ id \notin {key_id[k] : k \in Range(keys')}
                 /\ id \notin Range(lru_order')
    /\ (keys' = keys /\ key_id' = key_id /\ returned' # None
           /\ <<returned, lru_order, current_index>>'
                 # <<returned, lru_order, current_index>>)
          => returned' \in Range(keys')

\* C25: with keys added under ids the pool does not hold, after every
\* add_key, remove_key and get_key_by_strategy, under each strategy,
\* _lru_order holds exactly the ids of the keys in the pool, each once; after
\* remove_key(id) neither keys nor _lru_order holds id; and a selection
\* returns a key of the pool, never one that was removed.
C25_LruOrderTracksPool ==
    /\ [](ListsOnce(lru_order, PoolIds) /\ Len(lru_order) = Len(keys))
    /\ [][C25_Step]_vars

\* an id was removed and added again, and the key that has it now was selected
C25_Witness ==
    /\ Unborn = {}
    /\ Len(keys) = 2
    /\ returned = 3
    /\ lru_order[2] = key_id[3]

\* C26: no two key pairs of the pool have the same id, whatever add_key and
\* remove_key calls were made.
C26_IdsUnique ==
    \A i, j \in 1..Len(keys) : key_id[keys[i]] = key_id[keys[j]] => i = j

(* ------------------------ selection, key by key ----------------------- *)

\* the keys of the pool that can be selected now, in the pool's order
EligibleList == Filter(keys, {id \in Range(keys) : EligibleAt(key[id], now)})

\* a step of get_key_by_strategy: the clock and every counter stay
SelectStep ==
    /\ now' = now
    /\ \A id \in KeyIds : Counters(key'[id]) = Counters(key[id])

\* some key of the pool was rate-limited less than 30 minutes ago
Recent ==
    \E id \in Range(keys) :
        /\ key[id].last_rate_limit # NoTime
        /\ now - key[id].last_rate_limit < ADAPTIVE_WINDOW

\* the eligible key used longest ago, a key never used counting as oldest;
\* among equals the one added first
LruChoice ==
    LET E == {i \in 1..Len(keys) : EligibleAt(key[keys[i]], now)}
        used(i) == key[keys[i]].last_used
        first == CHOOSE i \in E :
                    \A j \in E : used(i) < used(j) \/ (used(i) = used(j) /\ i <= j)
    IN  keys[first]

\* the keys _select_weighted can return on the eligible keys
WeightedChoices ==
    LET kf == HealAll(key, keys, now)
    IN  {select_weighted(EligibleList, kf, r, u) :
            r \in Draws(EligibleList, kf), u \in 1..Len(EligibleList)}

\* _lru_order with id moved to its end
MovedToEnd(lru, id) ==
    SelectSeq(lru, LAMBDA x : x # id) \o <<id>>

C27_Step ==
    (SelectStep /\ EligibleList # <<>>)
        => IF Recent
           THEN /\ returned' \in WeightedChoices
                /\ lru_order' = lru_order
           ELSE /\ returned' = LruChoice
                /\ lru_order' = MovedToEnd(lru_order, key_id[LruChoice])

\* C27: under the adaptive strategy a selection is the weighted one exactly
\* when some key of the pool, eligible or not, was rate-limited less than 30
\* minutes before; otherwise it returns the key the LRU selection returns on
\* the same eligible keys, and moves it in _lru_order as LRU does.
C27_AdaptiveDelegates == [][C27_Step]_vars

\* 30 minutes to the tick after the only rate limit of the pool, the LRU
\* selection has been made: a key has moved in _lru_order
C27_Witness ==
    /\ now = ADAPTIVE_WINDOW
    /\ \E id \in Range(keys) : key[id].last_rate_limit = 0
    /\ \A id \in Range(keys) : key[id].last_rate_limit < 1
    /\ returned # None
    /\ lru_order # keys

\* a rate-limited key that cannot be selected makes the selection weighted
C27_WitnessIneligible ==
    /\ \E id \in Range(keys) : ~EligibleAt(key[id], now) /\ key[id].last_rate_limit = 1
    /\ now = ADAPTIVE_WINDOW
    /\ returned # None
    /\ keys = <<2, 1>>
    /\ lru_order = keys

C28_Step ==
    (rotation_strategy = LEAST_RECENTLY_USED /\ SelectStep /\ EligibleList # <<>>)
        => /\ returned' = LruChoice
           /\ lru_order' = MovedToEnd(lru_order, key_id[LruChoice])
           /\ \A id \in KeyIds : key'[id].last_used = key[id].last_used

\* C28: the LRU selection returns the eligible key whose last_used is the
\* smallest, a key never used counting as oldest and the key added first
\* winning among equals; it moves the id of that key to the end of _lru_order
\* and changes no last_used.
C28_LruSelection == [][C28_Step]_vars

\* of two keys never used the one added first, key 2, was returned and moved
C28_Witness ==
    /\ rotation_strategy = LEAST_RECENTLY_USED
    /\ keys = <<2, 1>>
    /\ key[1].last_used = NoTime
    /\ key[2].last_used = NoTime
    /\ returned = 2
    /\ lru_order = <<1, 2>>

C29_Step ==
    (SelectStep /\ EligibleList = <<>>)
        => /\ returned' = None
           /\ current_index' = current_index
           /\ lru_order' = lru_order
           /\ key' = key

\* C29: under every strategy, get_key_by_strategy on a pool none of whose
\* keys is eligible returns None and leaves _current_index, _lru_order and
\* every key pair as they are.
C29_NoneAvailable == [][C29_Step]_vars

\* two round-robin selections were made on a pool whose keys were both
\* rate-limited from the start
C29_Witness ==
    /\ rotation_strategy = ROUND_ROBIN
    /\ n_selects = 2
    /\ EligibleList = <<>>
    /\ \A id \in Range(keys) : key[id].last_rate_limit = 1
    /\ returned = None

(* --------------------- load_keys_from_environment --------------------- *)

\* the environments with no primary and no numbered key pair and with an
\* array in DD_API_KEYS_JSON
JsonOnly ==
    {env \in Environments :
        env.primary = <<>> /\ env.numbered = <<>> /\ env.json.kind = "array"}

\* the value of the "site" member of a JSON object, the default without one
SiteOf(entry) ==
    IF \E j \in 1..Len(entry) : entry[j][1] = "site"
    THEN entry[CHOOSE j \in 1..Len(entry) : entry[j][1] = "site"][2]
    ELSE DefaultSite

C30_Step ==
    \A env \in JsonOnly :
        Load(env) =>
            LET entries == env.json.entries
                n == Len(entries)
            IN  /\ Len(keys') = n
                /\ \A i \in 1..n :
                      /\ key_id'[keys'[i]] = <<"json_key", i>>
                      /\ key_site'[keys'[i]] = SiteOf(entries[i])
                      /\ key'[keys'[i]].health = TESTING
                      /\ Counters(key'[keys'[i]]) = Counters(KeyPair)
                /\ raised'[Caller] = IF n = 0 THEN NoKeyPairs ELSE NoException

\* C30: with no primary and no numbered key pair in the environment, loading
\* from a JSON array of n objects gives a pool of exactly n key pairs, in the
\* array's order, with ids json_key_1 .. json_key_n, each with the value of
\* the object's "site" member as it is, or the default site without one, each
\* in TESTING with every counter zero; the empty array gives no key pair: the
\* loader raises ValueError.
C30_JsonLoading == [][C30_Step]_vars

\* three key pairs were loaded: an empty site kept as it is, a site kept as it
\* is, and the default site
C30_Witness ==
    /\ Len(keys) = 3
    /\ key_id[3] = <<"json_key", 3>>
    /\ key_site[1] = ""
    /\ key_site[2] = "datadoghq.com"
    /\ key_site[3] = DefaultSite

(* --------------------------- recorded errors -------------------------- *)

C31_Step ==
    \A id \in Range(keys) :
        key'[id].error_requests = key[id].error_requests + 1
            => IF key[id].consecutive_failures + 1 >= circuit_breaker_threshold
               THEN /\ key'[id].health = ERROR
                    /\ key'[id].circuit_breaker_reset_time = now + circuit_breaker_timeout
                    /\ key'[id].rate_limit_reset_time = key[id].rate_limit_reset_time
               ELSE /\ key'[id].health = key[id].health
                    /\ key'[id].rate_limit_reset_time = key[id].rate_limit_reset_time
                    /\ key'[id].circuit_breaker_reset_time
                          = key[id].circuit_breaker_reset_time

\* C31: record_key_event(id, "error") sets health exactly when
\* consecutive_failures, once incremented, is >= circuit_breaker_threshold:
\* health becomes ERROR and circuit_breaker_reset_time becomes now +
\* circuit_breaker_timeout; below the threshold health and both reset times
\* stay as they are.
C31_ErrorOpensAtThreshold == [][C31_Step]_vars

\* a circuit opened again, later than its first opening, and its reset time
\* was moved
C31_Witness ==
    \E id \in Range(keys) :
        /\ key[id].health = ERROR
        /\ key[id].consecutive_failures > circuit_breaker_threshold
        /\ now > 0
        /\ key[id].last_error = now
        /\ key[id].circuit_breaker_reset_time = now + circuit_breaker_timeout

(* ------------------------------ backoff ------------------------------- *)

\* the exception is neither taken as a rate limit nor as an authentication error
GenericError(text) ==
    /\ text # NoException
    /\ ~detect_rate_limit_error(text, now)[1]
    /\ ~is_authentication_error(text)

\* the delays owed for the first n outcomes of a call with `retries` attempts:
\* 2^k for every attempt k that failed with a generic error and was not the last
RECURSIVE DelaysOwed(_, _, _)
DelaysOwed(h, n, retries) ==
    IF n = 0 THEN <<>>
    ELSE LET before == DelaysOwed(h, n - 1, retries)
         IN  IF GenericError(h[n].out) /\ n - 1 # retries - 1
             THEN Append(before, 2 ^ (n - 1))
             ELSE before

\* C32: inside the wrapper a delay of 2^k seconds is slept exactly after a
\* failure with a generic error on attempt k (counted from 0) that is not the
\* last allowed attempt; nothing is slept after a rate-limited attempt, after
\* an authentication failure, after a success or after the last allowed
\* attempt, and the thread is asleep only between such a failure and the next
\* attempt.
C32_BackoffOnlyAfterGenericError ==
    \A p \in Threads :
        /\ slept[p] = DelaysOwed(hist[p], Len(recs[p]), max_retries[p])
        /\ pc[p] = "sleep" =>
              /\ Len(recs[p]) = attempt[p] + 1
              /\ GenericError(hist[p][Len(hist[p])].out)
              /\ attempt[p] < max_retries[p] - 1
              /\ slept[p][Len(slept[p])] = 2 ^ attempt[p]

\* a call whose first attempt was rate-limited (no delay), whose second failed
\* with a generic error (2 seconds) and whose third and last failed the same
\* way (raised at once)
C32_Witness ==
    /\ pc[Caller] = "done"
    /\ Len(hist[Caller]) = 3
    /\ detect_rate_limit_error(hist[Caller][1].out, now)[1]
    /\ GenericError(hist[Caller][2].out)
    /\ GenericError(hist[Caller][3].out)
    /\ slept[Caller] = <<2>>
    /\ raised[Caller] = hist[Caller][3].out

\* a call that slept 1 and then 2 seconds and is about to make its last attempt
C32_WitnessTwice ==
    /\ pc[Caller] = "loop"
    /\ slept[Caller] = <<1, 2>>

(* ------------------------- weighted selection ------------------------- *)

\* the first key of the list whose cumulative weight exceeds r
FirstExceeding(avail, kf, r) ==
    LET over == {i \in 1..Len(avail) : Cumulative(avail, kf, i) > r}
    IN  avail[CHOOSE i \in over : \A j \in over : i <= j]

\* no weighted selection with a positive total weight returns a key pair of
\* weight 0
C33_Step ==
    (/\ SelectStep
     /\ returned' # None
     /\ EligibleList # <<>>
     /\ Cumulative(EligibleList, HealAll(key, keys, now), Len(EligibleList)) > 0)
        => get_weight(key'[returned']) > 0

\* for every draw r in [0, total_weight) the selection is the first eligible
\* key whose cumulative weight exceeds r, and with a total weight of 0 every
\* eligible key can be chosen
C33_Draws ==
    LET kf == HealAll(key, keys, now)
        avail == EligibleList
        total_weight == Cumulative(avail, kf, Len(avail))
        Us == 1..Len(avail)
    IN  avail # <<>> =>
           IF total_weight > 0
           THEN \A r \in Draws(avail, kf), u \in Us :
                   select_weighted(avail, kf, r, u) = FirstExceeding(avail, kf, r)
           ELSE {select_weighted(avail, kf, 0, u) : u \in Us} = Range(avail)

\* C33: weighted selection with a uniform draw r in [0, total_weight) returns
\* the first eligible key, in list order, whose cumulative weight exceeds r;
\* so with a positive total weight a key of weight 0 is never returned, and
\* with a total weight of 0 the choice is uniform over the eligible keys.
C33_WeightedFirstExceeding == []C33_Draws /\ [][C33_Step]_vars

\* C33, the consequence alone: a key of weight 0 is never returned while
\* another eligible key has a positive weight
C33_ZeroWeightNeverReturned == [][C33_Step]_vars

(* --------------------------- the health scan -------------------------- *)

\* the scan promotes this key pair: it is on probation and its last error is
\* absent or more than 5 minutes old
Promotable(k) ==
    /\ k.health = TESTING
    /\ (k.last_error = NoTime \/ now - k.last_error > HEALTH_GRACE)

C34_Step ==
    \A l \in Loops :
        (loops[l] = "scan" /\ loops'[l] = "sleep")
            => /\ lock.owner \in {NoThread, l}
               /\ \A id \in KeyIds :
                     key'[id] = IF id \in Range(keys) /\ Promotable(key[id])
                                THEN [key[id] EXCEPT !.health = HEALTHY]
                                ELSE key[id]
               /\ UNCHANGED <<keys, key_id, current_index, lru_order, lock>>

\* C34: one scan of the health loop promotes to HEALTHY exactly the key pairs
\* in TESTING whose last error is absent or more than 5 minutes old; every
\* other key pair, every counter, both reset times, the round-robin index,
\* the LRU order and the list of keys stay as they are, and the scan runs
\* only while no other thread holds the pool's lock.
C34_ScanPromotesProbation == [][C34_Step]_vars

\* after a scan: a key pair whose only request failed more than 5 minutes ago
\* is HEALTHY, and the loop sleeps
C34_Witness ==
    /\ loops[Monitor] = "sleep"
    /\ \E id \in Range(keys) :
          /\ key[id].health = HEALTHY
          /\ key[id].total_requests = 1
          /\ key[id].error_requests = 1
          /\ key[id].consecutive_failures = 1
          /\ now - key[id].last_error > HEALTH_GRACE

\* after a scan: a key pair on probation whose last error is 5 minutes old
\* or less was left on probation
C34_WitnessRecent ==
    /\ loops[Monitor] = "sleep"
    /\ \E id \in Range(keys) :
          /\ key[id].health = TESTING
          /\ key[id].last_error # NoTime
          /\ now - key[id].last_error <= HEALTH_GRACE

(* ---------------------- one event per invocation ---------------------- *)

\* the event that matches the outcome of an invocation
EventFor(out) ==
    IF out = NoException THEN "success"
    ELSE IF detect_rate_limit_error(out, now)[1] THEN "rate_limit"
    ELSE "error"

\* the invocation of thread p whose event is still to be recorded
Unrecorded(p) == IF pc[p] = "record" THEN 1 ELSE 0

\* outside the moment between an invocation and its record, the events a
\* thread has recorded in its call match its invocations one to one
C35_Recorded ==
    \A p \in Threads :
        /\ Len(recs[p]) = Len(hist[p]) - Unrecorded(p)
        /\ \A i \in 1..Len(recs[p]) :
              recs[p][i] = [key |-> hist[p][i].key, event |-> EventFor(hist[p][i].out)]

\* thread p records the outcome of its last invocation
Records(p) == pc[p] = "record" /\ pc'[p] # "record"

\* a record adds one to total_requests of the key pair that was used and to
\* no other, and no other step changes a total_requests
C35_Step ==
    /\ \A p \in Threads :
          Records(p) =>
              /\ key'[key_pair[p]].total_requests = key[key_pair[p]].total_requests + 1
              /\ TotalRequests(key', keys') = TotalRequests(key, keys) + 1
    /\ (\A p \in Threads : ~Records(p))
          => TotalRequests(key', keys') = TotalRequests(key, keys)

\* C35: every invocation of the operation is followed, before the next
\* selection, return or raise, by exactly one record_key_event on the key
\* pair it was given, of the kind that matches its outcome; with no key
\* removed, each invocation so adds exactly one to the sum of total_requests
\* over the pool, and nothing else adds to it.
C35_OneEventPerInvocation == []C35_Recorded /\ [][C35_Step]_vars

\* two threads have each finished a call, three invocations were made in all,
\* and one key pair was used by both threads
C35_Witness ==
    /\ \A p \in Threads : pc[p] = "done" /\ hist[p] # <<>>
    /\ Len(hist["t1"]) + Len(hist["t2"]) >= 3
    /\ \E i \in 1..Len(hist["t1"]), j \in 1..Len(hist["t2"]) :
          /\ hist["t1"][i].key = hist["t2"][j].key
          /\ key[hist["t1"][i].key].total_requests >= 2

(* --------------------------- open circuits ---------------------------- *)

\* C36: in every reachable state, under any interleaving of concurrent calls
\* of the wrapper, a key pair whose circuit is open (health ERROR) has
\* consecutive_failures >= circuit_breaker_threshold; a success recorded for
\* such a key pair closes the circuit or leaves the count at the threshold or
\* above.
C36_OpenCircuitAtThreshold ==
    \A id \in Range(keys) :
        key[id].health = ERROR
            => key[id].consecutive_failures >= circuit_breaker_threshold

(* ------------------------ quarantines do end -------------------------- *)

\* C37: no key pair is quarantined for ever: one in RATE_LIMITED has a
\* rate_limit_reset_time and one in ERROR has a circuit_breaker_reset_time;
\* once the clock has passed that time, with no failure recorded since, the
\* next evaluation of is_available finds the key pair available, and the key
\* pair it leaves behind is HEALTHY or TESTING.
C37_QuarantineEnds ==
    \A id \in Range(keys) :
        /\ key[id].health = RATE_LIMITED
              => /\ key[id].rate_limit_reset_time # NoTime
                 /\ now > key[id].rate_limit_reset_time
                       => /\ is_available(key[id], now)
                          /\ Heal(key[id], now).health = HEALTHY
        /\ key[id].health = ERROR
              => /\ key[id].circuit_breaker_reset_time # NoTime
                 /\ now > key[id].circuit_breaker_reset_time
                       => /\ is_available(key[id], now)
                          /\ Heal(key[id], now).health = TESTING
        /\ key[id].health # DISABLED

\* the clock has passed the reset time of an open circuit and of a rate limit
C37_Witness ==
    \E id \in Range(keys), other \in Range(keys) :
        /\ key[id].health = ERROR
        /\ now > key[id].circuit_breaker_reset_time
        /\ key[other].health = RATE_LIMITED
        /\ now > key[other].rate_limit_reset_time

\* a key pair whose circuit was open has been evaluated after its reset time:
\* it is on probation and was returned by a selection
C37_WitnessEvaluated ==
    \E id \in Range(keys) :
        /\ opened_reset[id] # NoTime
        /\ now > opened_reset[id]
        /\ key[id].health = TESTING
        /\ key[id].circuit_breaker_reset_time = NoTime
        /\ returned = id

(* ----------------------- probation after a circuit -------------------- *)

C38_Step ==
    \A id \in Range(keys) :
        \* the auto-heal keeps the count
        /\ (key[id].health = ERROR /\ key'[id].health = TESTING)
              => /\ key'[id].consecutive_failures = key[id].consecutive_failures
                 /\ key'[id].circuit_breaker_reset_time = NoTime
                 /\ now > key[id].circuit_breaker_reset_time
        \* one more error on the healed key opens the circuit again
        /\ (/\ key[id].health = TESTING
            /\ key[id].consecutive_failures >= circuit_breaker_threshold
            /\ key'[id].error_requests = key[id].error_requests + 1)
              => /\ key'[id].health = ERROR
                 /\ key'[id].circuit_breaker_reset_time = now + circuit_breaker_timeout
                 /\ key'[id].circuit_breaker_reset_time > opened_reset[id]
        \* only a recorded success lowers the count, and it lowers it to zero
        /\ key'[id].consecutive_failures < key[id].consecutive_failures
              => /\ key'[id].consecutive_failures = 0
                 /\ key'[id].successful_requests = key[id].successful_requests + 1

\* C38: the auto-heal from ERROR to TESTING does not reset
\* consecutive_failures, so one more error after the cool-down, with no
\* success in between, opens the circuit again with a new
\* circuit_breaker_reset_time; only a recorded success brings the count back
\* to zero.
C38_HealKeepsFailureCount == [][C38_Step]_vars

\* a key pair on probation after its circuit closed, the count still at the
\* threshold
C38_Witness ==
    \E id \in Range(keys) :
        /\ key[id].health = TESTING
        /\ key[id].consecutive_failures >= circuit_breaker_threshold
        /\ opened_reset[id] # NoTime
        /\ now > opened_reset[id]

(* ----------------------- monitoring, started again -------------------- *)

\* stop_health_monitoring and then start_health_monitoring have been called
\* and have returned
Restarted == n_calls[Caller] = 2 /\ pc[Caller] = "idle"

\* C39: after stop_health_monitoring() followed by start_health_monitoring()
\* the health loop runs again: it scans, and keeps scanning as long as no
\* further stop is called.
C39_RestartScansAgain ==
    [](Restarted => []<>(\E l \in Loops : loops[l] = "scan"))

\* C39, as a state property: once the monitoring has been started again, a
\* thread is running the health loop or has still to make its first test
C39_RestartedLoopAlive ==
    Restarted => \E l \in Loops : loops[l] \in {"check", "scan", "sleep"}

(* ------------------- events that belong to no key --------------------- *)

\* the pool as record_key_event can change it
PoolState == <<key, keys, key_id, current_index, lru_order>>

C40_Step ==
    \* the wrapper records the outcome of a call whose key pair was removed
    /\ \A p \in Threads :
          (pc[p] = "record" /\ pc'[p] # "record" /\ key_pair[p] \notin Range(keys))
              => /\ UNCHANGED PoolState
                 /\ pc'[p] \in {"done", "loop", "sleep"}
                 /\ raised'[p] \in {NoException, hist[p][Len(hist[p])].out}
                 /\ hist[p][Len(hist[p])].out = NoException
                       => raised'[p] = NoException /\ result'[p] = key_pair[p]
    \* an event of an unknown type is recorded for a key pair of the pool
    /\ \A id \in Range(keys) :
          (tally'[id].events = tally[id].events + 1 /\ pc' = pc)
              => UNCHANGED PoolState

\* C40: record_key_event with an id that is not in the pool (a key pair
\* removed while a call with it was in flight) or with an event type other
\* than success, rate_limit and error does not raise and leaves the health,
\* the reset times and the statistics of every key pair, the round-robin
\* index and both orders unchanged.
C40_StrayEventsIgnored == [][C40_Step]_vars

\* a call has ended whose key pair was removed while it was in flight: its
\* event was recorded for no key pair; and an event of an unknown type was
\* recorded for a key pair that is still in the pool
C40_Witness ==
    /\ pc[Caller] = "done"
    /\ recs[Caller] # <<>>
    /\ key_pair[Caller] \notin Range(keys)
    /\ recs[Caller][Len(recs[Caller])].key = key_pair[Caller]
    /\ key[key_pair[Caller]].total_requests = 0
    /\ \E id \in Range(keys) : tally[id].events > key[id].total_requests

====
